---- MODULE Spec2Model ----
(***************************************************************************)
(* Model of the product discovery engine                                   *)
(* (src/product_discovery_agent/engine.py, sustained.py, constants.py).    *)
(*                                                                         *)
(* Strings are sequences of one-character strings, so that normalisation,  *)
(* lower-casing, tokenisation and substring tests are computed character   *)
(* by character as the code computes them.  Float quantities (points,      *)
(* scores) are fixed-point integers: PU units make 1.0.                    *)
(***************************************************************************)
EXTENDS Integers, Sequences, FiniteSets, TLC

VARIABLES
    \* normalisation: input, first and second result, position
    n_in, n_out, n_out2, n_pc,
    \* recommendation: the five arguments, the tier returned, position
    r_total, r_sust, r_mkt, r_qual, r_mode, r_tier, r_pc,
    \* ledger: the observations, the ledger filled in the order given, the
    \* ledger filled in another order, the observations the second has taken
    l_obs, l_mapA, l_nA, l_mapB, l_takenB, l_pc,
    \* run_product_discovery (d_): its arguments, its locals, its position, the
    \* report returned, and the log of the external calls made
    d_scope, d_config, d_pc, d_fetcher_built, d_seed_keywords, d_excluded_keywords,
    d_candidate_map, d_warnings, d_search_expansions, d_trend_signals,
    d_sustained_trend_signals, d_seed_i, d_filtered_candidates, d_selected, d_sust_i,
    d_failure_count, d_shortlisted_candidates, d_scan_k, d_scan_m, d_snapshots,
    d_marketplace_unavailable, d_opportunities, d_report, d_calls,
    \* ranked suggestions (e_): the ledger before and after the last list was
    \* applied, that list and its source, the number of lists applied
    e_before, e_candidate_map, e_suggestions, e_source, e_round,
    \* direction (c_): the metric triple, the direction returned, position
    c_growth_rate, c_slope_per_point, c_consistency, c_direction, c_pc

normVars == <<n_in, n_out, n_out2, n_pc>>

recVars == <<r_total, r_sust, r_mkt, r_qual, r_mode, r_tier, r_pc>>

ledVars == <<l_obs, l_mapA, l_nA, l_mapB, l_takenB, l_pc>>

runVars ==
    <<d_scope, d_config, d_pc, d_fetcher_built, d_seed_keywords, d_excluded_keywords,
      d_candidate_map, d_warnings, d_search_expansions, d_trend_signals,
      d_sustained_trend_signals, d_seed_i, d_filtered_candidates, d_selected, d_sust_i,
      d_failure_count, d_shortlisted_candidates, d_scan_k, d_scan_m, d_snapshots,
      d_marketplace_unavailable, d_opportunities, d_report, d_calls>>

expVars == <<e_before, e_candidate_map, e_suggestions, e_source, e_round>>

dirVars == <<c_growth_rate, c_slope_per_point, c_consistency, c_direction, c_pc>>

vars == <<normVars, recVars, ledVars, runVars, expVars, dirVars>>

(***************************************************************************)
(* Generic helpers                                                         *)
(***************************************************************************)
Min(a, b) == IF a <= b THEN a ELSE b

Max(a, b) == IF a >= b THEN a ELSE b

Range(s) == {s[i] : i \in 1..Len(s)}

\* All sequences over alphabet A of length at most n.
RECURSIVE StrsUpTo(_, _)
StrsUpTo(A, n) ==
    IF n = 0 THEN {<<>>}
    ELSE LET shorter == StrsUpTo(A, n - 1)
         IN  shorter \cup {Append(s, c) : s \in {t \in shorter : Len(t) = n - 1}, c \in A}

\* n copies of character c.
Pad(c, n) == [i \in 1..n |-> c]

(***************************************************************************)
(* constants.py                                                            *)
(***************************************************************************)
MIN_KEYWORD_LENGTH == 2

MAX_KEYWORD_LENGTH == 80

\* Fixed point: PU units make 1.0 (600 is divisible by the list lengths and
\* token counts that divide points, and 0.35 is 210 units).
PU == 6 * 100

COMPONENT_SCORE_CAP == 100 * PU

INVENTORY_RECOMMENDATION_THRESHOLDS ==
    [add_now_total_min |-> 70 * PU,
     add_now_sustained_min |-> 60 * PU,
     add_now_marketplace_min |-> 45 * PU,
     add_now_quality_min |-> 55 * PU,
     test_batch_total_min |-> 55 * PU,
     test_batch_sustained_min |-> 45 * PU,
     test_batch_quality_min |-> 45 * PU,
     watchlist_total_min |-> 40 * PU]

SUPPORTED_POSITIONING_MODES == {"balanced", "quality"}

SUPPORTED_MARKETPLACES == {"amazon", "walmart", "target"}

MAX_SEED_KEYWORDS == 30

MAX_SUSTAINED_TREND_FETCH_FAILURES == 2

\* 0.25 and 0.2
MIN_RELEVANCE_FOR_TRENDS == (25 * PU) \div 100

MIN_RELEVANCE_FOR_SUSTAINED_TRENDS == (20 * PU) \div 100

SEARCH_SOURCE_WEIGHTS ==
    [seed_keyword |-> 6 * PU, google_suggest |-> 5 * PU,
     amazon_suggest |-> 4 * PU, google_trends |-> 3 * PU]

SEARCH_RANK_MULTIPLIER == 8

TREND_TRAFFIC_MULTIPLIER == 12

TREND_RELEVANCE_MULTIPLIER == 16

SUSTAINED_TREND_RECENT_POINTS == 8

SUSTAINED_TREND_BASELINE_POINTS == 8

SUSTAINED_TREND_MIN_POINTS == 16

SUSTAINED_BASELINE_DENOMINATOR_FLOOR == 10

\* Metrics (growth, slope, consistency) are fixed-point with MS units to 1.0.
MS == 10 * 100

\* 0.35 and 0.35
SUSTAINED_GROWTH_STRONG == (35 * MS) \div 100

SUSTAINED_SLOPE_STRONG == (35 * MS) \div 100

\* 0.5, 0.3, 0.2 in tenths
SUSTAINED_SCORE_COMPONENT_WEIGHTS == [growth |-> 5, slope |-> 3, consistency |-> 2]

SUSTAINED_DIRECTION_THRESHOLDS ==
    [accelerating_growth_min |-> (20 * MS) \div 100,
     accelerating_slope_min |-> (10 * MS) \div 100,
     accelerating_consistency_min |-> (60 * MS) \div 100,
     steady_growth_min |-> (5 * MS) \div 100,
     steady_slope_min |-> (3 * MS) \div 100,
     declining_growth_max |-> -((10 * MS) \div 100),
     declining_slope_max |-> -((5 * MS) \div 100)]

MARKETPLACE_COVERAGE_WEIGHT == 16

MARKETPLACE_RESULTS_WEIGHT == 14

MARKETPLACE_SAMPLE_TITLES_WEIGHT == 2

MARKETPLACE_RESULT_CAP == 1000000

QUALITY_SCORE_BASELINE == 50 * PU

QUALITY_POSITIVE_TOKEN_BOOST == 8 * PU

QUALITY_NEGATIVE_TOKEN_PENALTY == 14 * PU

QUALITY_SCORE_MIN == 0 * PU

QUALITY_SCORE_MAX == 100 * PU

QUALITY_NEGATIVE_TOKENS ==
    {<<"c", "h", "e", "a", "p">>,
     <<"c", "l", "e", "a", "r", "a", "n", "c", "e">>,
     <<"b", "u", "l", "k">>,
     <<"w", "h", "o", "l", "e", "s", "a", "l", "e">>,
     <<"d", "u", "p", "e">>,
     <<"r", "e", "p", "l", "i", "c", "a">>,
     <<"k", "n", "o", "c", "k", "o", "f", "f">>,
     <<"l", "o", "w", " ", "c", "o", "s", "t">>}

QUALITY_POSITIVE_TOKENS ==
    {<<"p", "r", "e", "m", "i", "u", "m">>,
     <<"o", "r", "g", "a", "n", "i", "c">>,
     <<"a", "u", "t", "h", "e", "n", "t", "i", "c">>,
     <<"o", "f", "f", "i", "c", "i", "a", "l">>,
     <<"l", "u", "x", "u", "r", "y">>,
     <<"d", "e", "s", "i", "g", "n", "e", "r">>,
     <<"a", "r", "t", "i", "s", "a", "n">>,
     <<"h", "i", "g", "h", " ", "q", "u", "a", "l", "i", "t", "y">>}

WEIGHTED_SCORE_WEIGHTS == [search |-> 22, trend |-> 14, sustained |-> 34, marketplace |-> 30]

(***************************************************************************)
(* Characters: Python's str.strip() and the regex \s agree on what is      *)
(* whitespace; [a-z0-9] is the token class of _TOKEN_RE.                   *)
(***************************************************************************)
WhitespaceChars == {" ", "\t"}

IsSpace(c) == c \in WhitespaceChars

LowerLetters ==
    <<"a", "b", "c", "d", "e", "f", "g", "h", "i", "j", "k", "l", "m",
      "n", "o", "p", "q", "r", "s", "t", "u", "v", "w", "x", "y", "z">>

UpperLetters ==
    <<"A", "B", "C", "D", "E", "F", "G", "H", "I", "J", "K", "L", "M",
      "N", "O", "P", "Q", "R", "S", "T", "U", "V", "W", "X", "Y", "Z">>

Digits == <<"0", "1", "2", "3", "4", "5", "6", "7", "8", "9">>

LowerChar(c) ==
    IF c \in Range(UpperLetters)
    THEN LowerLetters[CHOOSE i \in 1..Len(UpperLetters) : UpperLetters[i] = c]
    ELSE c

\* str.lower()
Lower(s) == [i \in 1..Len(s) |-> LowerChar(s[i])]

\* Code-point order of the characters the model uses: whitespace and
\* punctuation below digits, digits below upper case, upper below lower.
CodeOrder == <<"\t", " ", "'", ":">> \o Digits \o UpperLetters \o <<"_">> \o LowerLetters

CharCode(c) == CHOOSE i \in 1..Len(CodeOrder) : CodeOrder[i] = c

\* Python's str < str: by the first differing character, else by length.
StrLess(a, b) ==
    LET n == Min(Len(a), Len(b))
        diff == {i \in 1..n : a[i] # b[i]}
    IN  IF diff = {} THEN Len(a) < Len(b)
        ELSE LET i == CHOOSE x \in diff : \A y \in diff : x <= y
             IN  CharCode(a[i]) < CharCode(b[i])

\* needle in hay
Contains(hay, needle) ==
    \E i \in 0..(Len(hay) - Len(needle)) : SubSeq(hay, i + 1, i + Len(needle)) = needle

\* The class [a-z0-9] of _TOKEN_RE
IsTokenChar(c) == c \in Range(LowerLetters) \cup Range(Digits)

\* set(_TOKEN_RE.findall(s)): the maximal runs of token characters
Tokens(s) ==
    {SubSeq(s, i, j) : <<i, j>> \in
        {ij \in (1..Len(s)) \X (1..Len(s)) :
            /\ ij[1] <= ij[2]
            /\ \A k \in ij[1]..ij[2] : IsTokenChar(s[k])
            /\ (ij[1] = 1 \/ ~IsTokenChar(s[ij[1] - 1]))
            /\ (ij[2] = Len(s) \/ ~IsTokenChar(s[ij[2] + 1]))}}

\* Positions of s that hold a non-whitespace character.
NonSpaceAt(s) == {i \in 1..Len(s) : ~IsSpace(s[i])}

SetMin(S) == CHOOSE x \in S : \A y \in S : x <= y

SetMax(S) == CHOOSE x \in S : \A y \in S : x >= y

\* str.lstrip()
LStrip(s) == IF NonSpaceAt(s) = {} THEN <<>> ELSE SubSeq(s, SetMin(NonSpaceAt(s)), Len(s))

\* str.rstrip()
RStrip(s) == IF NonSpaceAt(s) = {} THEN <<>> ELSE SubSeq(s, 1, SetMax(NonSpaceAt(s)))

\* str.strip()
Strip(s) == RStrip(LStrip(s))

\* _WHITESPACE_RE.sub(" ", s): every maximal run of whitespace becomes one
\* space.  Position i survives unless it continues a run; the string is
\* split in halves so that long strings need only shallow recursion.
RECURSIVE CollapseRange(_, _, _)
CollapseRange(s, lo, hi) ==
    IF lo > hi THEN <<>>
    ELSE IF lo = hi
         THEN IF IsSpace(s[lo])
              THEN IF lo > 1 /\ IsSpace(s[lo - 1]) THEN <<>> ELSE <<" ">>
              ELSE <<s[lo]>>
         ELSE LET mid == (lo + hi) \div 2
              IN  CollapseRange(s, lo, mid) \o CollapseRange(s, mid + 1, hi)

CollapseWhitespace(s) == CollapseRange(s, 1, Len(s))

\* Plausible slip: truncation without the right-trim.
normalize_keyword_no_rstrip(keyword) ==
    LET collapsed == CollapseWhitespace(Strip(keyword))
    IN  IF collapsed = <<>> THEN <<>>
        ELSE IF Len(collapsed) < MIN_KEYWORD_LENGTH THEN <<>>
        ELSE IF Len(collapsed) > MAX_KEYWORD_LENGTH
             THEN SubSeq(collapsed, 1, MAX_KEYWORD_LENGTH)
        ELSE collapsed

\* engine.py _normalize_keyword
normalize_keyword(keyword) ==
    LET collapsed == CollapseWhitespace(Strip(keyword))
    IN  IF collapsed = <<>> THEN <<>>
        ELSE IF Len(collapsed) < MIN_KEYWORD_LENGTH THEN <<>>
        ELSE IF Len(collapsed) > MAX_KEYWORD_LENGTH
             THEN RStrip(SubSeq(collapsed, 1, MAX_KEYWORD_LENGTH))
        ELSE collapsed

(***************************************************************************)
(* Candidate ledger.  candidate_map is a function from the lower-cased     *)
(* normalised keyword to the accumulator.  Every list the engine takes     *)
(* from the dict is sorted by a key that ends in keyword.lower(), which is *)
(* the dict key and so unique, before its order is used; the dict's        *)
(* insertion order is therefore not part of the state.                     *)
(***************************************************************************)
\* engine.py class _CandidateAccumulator, as constructed with its defaults
CandidateAccumulator(keyword) ==
    [keyword |-> keyword,
     search_points |-> 0,
     trend_points |-> 0,
     sustained_points |-> 0,
     sources |-> {},
     trend_hits |-> 0,
     max_trend_traffic_estimate |-> 0,
     sustained_direction |-> "None"]

\* Plausible slip: the traffic estimate is overwritten instead of maximised.
add_candidate_last_traffic(candidate_map, keyword, search_points, trend_points, source, trend_traffic_estimate) ==
    LET normalized == normalize_keyword(keyword)
        key == Lower(normalized)
        candidate == IF key \in DOMAIN candidate_map
                     THEN candidate_map[key]
                     ELSE CandidateAccumulator(normalized)
        updated ==
            [candidate EXCEPT
                !.search_points = @ + search_points,
                !.trend_points = @ + trend_points,
                !.sources = @ \cup {source},
                !.trend_hits = IF trend_points > 0 THEN @ + 1 ELSE @,
                !.max_trend_traffic_estimate =
                    IF trend_points > 0 THEN trend_traffic_estimate ELSE @]
    IN  IF normalized = <<>> THEN candidate_map
        ELSE [k \in DOMAIN candidate_map \cup {key} |->
                IF k = key THEN updated ELSE candidate_map[k]]

\* Plausible slip: the search points of an observation assigned instead of
\* added.
add_candidate_overwriting(candidate_map, keyword, search_points, trend_points, source, trend_traffic_estimate) ==
    LET normalized == normalize_keyword(keyword)
        key == Lower(normalized)
        candidate == IF key \in DOMAIN candidate_map
                     THEN candidate_map[key]
                     ELSE CandidateAccumulator(normalized)
        updated ==
            [candidate EXCEPT
                !.search_points = search_points,
                !.trend_points = @ + trend_points,
                !.sources = @ \cup {source},
                !.trend_hits = IF trend_points > 0 THEN @ + 1 ELSE @,
                !.max_trend_traffic_estimate =
                    IF trend_points > 0 THEN Max(@, trend_traffic_estimate) ELSE @]
    IN  IF normalized = <<>> THEN candidate_map
        ELSE [k \in DOMAIN candidate_map \cup {key} |->
                IF k = key THEN updated ELSE candidate_map[k]]

\* engine.py _add_candidate
add_candidate(candidate_map, keyword, search_points, trend_points, source, trend_traffic_estimate) ==
    LET normalized == normalize_keyword(keyword)
        key == Lower(normalized)
        candidate == IF key \in DOMAIN candidate_map
                     THEN candidate_map[key]
                     ELSE CandidateAccumulator(normalized)
        updated ==
            [candidate EXCEPT
                !.search_points = @ + search_points,
                !.trend_points = @ + trend_points,
                !.sources = @ \cup {source},
                !.trend_hits = IF trend_points > 0 THEN @ + 1 ELSE @,
                !.max_trend_traffic_estimate =
                    IF trend_points > 0 THEN Max(@, trend_traffic_estimate) ELSE @]
    IN  IF normalized = <<>> THEN candidate_map
        ELSE [k \in DOMAIN candidate_map \cup {key} |->
                IF k = key THEN updated ELSE candidate_map[k]]

(***************************************************************************)
(* Seeds, exclusions, relevance                                            *)
(***************************************************************************)
\* engine.py _normalize_seed_keywords: normalised, first spelling of each
\* lower-cased key kept, empty results dropped.
RECURSIVE NormalizeSeedsFrom(_, _, _)
NormalizeSeedsFrom(seed_keywords, i, deduped) ==
    IF i > Len(seed_keywords) THEN deduped
    ELSE LET normalized == normalize_keyword(seed_keywords[i])
             seen == {Lower(deduped[j]) : j \in 1..Len(deduped)}
         IN  IF normalized = <<>> \/ Lower(normalized) \in seen
             THEN NormalizeSeedsFrom(seed_keywords, i + 1, deduped)
             ELSE NormalizeSeedsFrom(seed_keywords, i + 1, Append(deduped, normalized))

normalize_seed_keywords(seed_keywords) == NormalizeSeedsFrom(seed_keywords, 1, <<>>)

\* engine.py _normalize_exclusions
normalize_exclusions(excluded_keywords) ==
    {Lower(normalize_keyword(excluded_keywords[i])) : i \in 1..Len(excluded_keywords)} \ {<<>>}

\* Plausible slip: any() for all(), one supported marketplace is enough.
validate_marketplaces_any_supported(marketplaces) ==
    \/ marketplaces = <<>>
    \/ {i \in 1..Len(marketplaces) : marketplaces[i] \in SUPPORTED_MARKETPLACES} # {}

\* engine.py _validate_marketplaces: TRUE when it does not raise
validate_marketplaces(marketplaces) ==
    {i \in 1..Len(marketplaces) : marketplaces[i] \notin SUPPORTED_MARKETPLACES} = {}

\* engine.py _validate_positioning_mode: TRUE when it does not raise
validate_positioning_mode(positioning_mode) ==
    positioning_mode \in SUPPORTED_POSITIONING_MODES

\* engine.py _is_excluded
is_excluded(keyword, excluded_keywords) ==
    LET lower_keyword == Lower(keyword)
        keyword_tokens == Tokens(lower_keyword)
    IN  /\ excluded_keywords # {}
        /\ \/ lower_keyword \in excluded_keywords
           \/ \E excluded \in excluded_keywords :
                 \/ Contains(lower_keyword, excluded)
                 \/ /\ Tokens(excluded) # {}
                    /\ Tokens(excluded) \subseteq keyword_tokens

\* The score one seed contributes in _keyword_relevance (0 when the loop
\* skips it or neither branch applies); 0.35 is 35/100.
SeedRelevance(candidate_keyword, seed_keyword) ==
    LET candidate_lower == Lower(candidate_keyword)
        candidate_tokens == Tokens(candidate_lower)
        seed_lower == Lower(seed_keyword)
        seed_tokens == Tokens(seed_lower)
        overlap == Cardinality(candidate_tokens \cap seed_tokens)
    IN  IF seed_tokens = {} THEN 0
        ELSE IF overlap > 0 THEN (overlap * PU) \div Cardinality(seed_tokens)
        ELSE IF Contains(candidate_lower, seed_lower) \/ Contains(seed_lower, candidate_lower)
             THEN (35 * PU) \div 100
        ELSE 0

\* engine.py _keyword_relevance
keyword_relevance(candidate_keyword, seed_keywords) ==
    LET scores == {SeedRelevance(candidate_keyword, seed_keywords[i]) : i \in 1..Len(seed_keywords)}
    IN  IF Tokens(Lower(candidate_keyword)) = {} THEN 0
        ELSE Min(PU, SetMax(scores \cup {0}))

\* log10 of a power of ten below 10^6 (the traffic and result counts of the
\* model are of the form 10^d - 1, so that the logarithm is exact).
Log10Exact(n) == CHOOSE d \in 0..5 : 10 ^ d = n

\* engine.py _log_scaled: min(1.0, log10(value + 1) / 6.0)
log_scaled(value) ==
    IF value <= 0 THEN 0
    ELSE IF value + 1 >= 10 ^ 6 THEN PU
    ELSE (Log10Exact(value + 1) * PU) \div 6

\* engine.py _clamp
clamp(value, lower, upper) ==
    IF value < lower THEN lower ELSE IF value > upper THEN upper ELSE value

\* Plausible slip: the rank counted from 0 in the decay, so that the last
\* suggestion of a list gets 1/N too little.
RECURSIVE ApplyRankedFromZeroBased(_, _, _, _)
ApplyRankedFromZeroBased(candidate_map, suggestions, source, rank) ==
    IF rank > Len(suggestions) THEN candidate_map
    ELSE LET total == Max(1, Len(suggestions))
             search_points == (SEARCH_SOURCE_WEIGHTS[source] * (total - rank)) \div total
         IN  ApplyRankedFromZeroBased(
                 add_candidate(candidate_map, suggestions[rank], search_points, 0, source, 0),
                 suggestions, source, rank + 1)

apply_ranked_suggestions_zero_based(candidate_map, suggestions, source) ==
    ApplyRankedFromZeroBased(candidate_map, suggestions, source, 1)

\* engine.py _apply_ranked_suggestions
RECURSIVE ApplyRankedFrom(_, _, _, _)
ApplyRankedFrom(candidate_map, suggestions, source, rank) ==
    IF rank > Len(suggestions) THEN candidate_map
    ELSE LET total == Max(1, Len(suggestions))
             search_points == (SEARCH_SOURCE_WEIGHTS[source] * (total - rank + 1)) \div total
         IN  ApplyRankedFrom(
                 add_candidate(candidate_map, suggestions[rank], search_points, 0, source, 0),
                 suggestions, source, rank + 1)

apply_ranked_suggestions(candidate_map, suggestions, source) ==
    ApplyRankedFrom(candidate_map, suggestions, source, 1)

(***************************************************************************)
(* sustained.py                                                            *)
(***************************************************************************)
RECURSIVE SumSeq(_)
SumSeq(seq) == IF seq = <<>> THEN 0 ELSE Head(seq) + SumSeq(Tail(seq))

\* Division that rounds toward zero, so that x >= t for a positive gate t
\* and x <= t for a negative gate t are decided as for the exact quotient.
TruncDiv(a, b) == IF a >= 0 THEN a \div b ELSE -((-a) \div b)

\* sustained.py _linear_slope: sum((x - xm)(y - ym)) / sum((x - xm)^2) with
\* xm = (n - 1)/2 and ym = S/n is 2A/(nB) for the integer sums A and B.
linear_slope(values) ==
    LET count == Len(values)
        total == SumSeq(values)
        A == SumSeq([i \in 1..count |->
                    (2 * (i - 1) - (count - 1)) * (count * values[i] - total)])
        B == SumSeq([i \in 1..count |->
                    (2 * (i - 1) - (count - 1)) * (2 * (i - 1) - (count - 1))])
    IN  IF count < 2 THEN 0
        ELSE IF B <= 0 THEN 0
        ELSE TruncDiv(2 * A * MS, count * B)

\* sustained.py _consistency_ratio
consistency_ratio(values) ==
    LET total_steps == Len(values) - 1
        non_decreasing_steps ==
            Cardinality({i \in 1..total_steps : values[i + 1] >= values[i]})
    IN  IF Len(values) < 2 THEN MS \div 2
        ELSE (non_decreasing_steps * MS) \div total_steps

\* Plausible slip: growth and slope used as ratios to their "strong" values
\* without being clamped to [-1, 1], and the score left as computed.
score_sustained_metrics_unclamped(growth_rate, slope_per_point, consistency) ==
    LET W == SUSTAINED_SCORE_COMPONENT_WEIGHTS
        growth_normalized == TruncDiv(growth_rate * MS, SUSTAINED_GROWTH_STRONG)
        slope_normalized == TruncDiv(slope_per_point * MS, SUSTAINED_SLOPE_STRONG)
        consistency_normalized == clamp(2 * (consistency - MS \div 2), -MS, MS)
        weighted10 == growth_normalized * W.growth + slope_normalized * W.slope
                      + consistency_normalized * W.consistency
    IN  TruncDiv((weighted10 + 10 * MS) * (COMPONENT_SCORE_CAP \div 20), MS)

\* sustained.py _score_sustained_metrics; the result is in PU units.
score_sustained_metrics(growth_rate, slope_per_point, consistency) ==
    LET W == SUSTAINED_SCORE_COMPONENT_WEIGHTS
        growth_normalized == clamp(TruncDiv(growth_rate * MS, SUSTAINED_GROWTH_STRONG), -MS, MS)
        slope_normalized == clamp(TruncDiv(slope_per_point * MS, SUSTAINED_SLOPE_STRONG), -MS, MS)
        consistency_normalized == clamp(2 * (consistency - MS \div 2), -MS, MS)
        weighted10 == growth_normalized * W.growth + slope_normalized * W.slope
                      + consistency_normalized * W.consistency
        raw_score == ((weighted10 + 10 * MS) * (COMPONENT_SCORE_CAP \div 20)) \div MS
    IN  clamp(raw_score, 0, COMPONENT_SCORE_CAP)

\* Plausible slip: the steady_up test placed before the accelerating test.
classify_direction_steady_first(growth_rate, slope_per_point, consistency) ==
    LET T == SUSTAINED_DIRECTION_THRESHOLDS
    IN  IF /\ growth_rate >= T.steady_growth_min
           /\ slope_per_point >= T.steady_slope_min
        THEN "steady_up"
        ELSE IF /\ growth_rate >= T.accelerating_growth_min
                /\ slope_per_point >= T.accelerating_slope_min
                /\ consistency >= T.accelerating_consistency_min
        THEN "accelerating"
        ELSE IF \/ growth_rate <= T.declining_growth_max
                \/ slope_per_point <= T.declining_slope_max
        THEN "declining"
        ELSE "flat"

\* sustained.py _classify_direction
classify_direction(growth_rate, slope_per_point, consistency) ==
    LET T == SUSTAINED_DIRECTION_THRESHOLDS
    IN  IF /\ growth_rate >= T.accelerating_growth_min
           /\ slope_per_point >= T.accelerating_slope_min
           /\ consistency >= T.accelerating_consistency_min
        THEN "accelerating"
        ELSE IF /\ growth_rate >= T.steady_growth_min
                /\ slope_per_point >= T.steady_slope_min
        THEN "steady_up"
        ELSE IF \/ growth_rate <= T.declining_growth_max
                \/ slope_per_point <= T.declining_slope_max
        THEN "declining"
        ELSE "flat"

\* Python's None, and a present value, of an optional field.
None == <<>>

Some(x) == <<x>>

\* sustained.py compute_sustained_trend_metrics; None when the series is
\* too short.  (recent - baseline) / max(floor, baseline) for the two means
\* is (sumR*bp - sumB*rp) / (rp * max(floor*bp, sumB)).
compute_sustained_trend_metrics(values, recent_points, baseline_points) ==
    LET n == Len(values)
        recent_slice == SubSeq(values, n - recent_points + 1, n)
        baseline_slice == SubSeq(values, n - recent_points - baseline_points + 1, n - recent_points)
        sumR == SumSeq(recent_slice)
        sumB == SumSeq(baseline_slice)
        growth_rate ==
            TruncDiv((sumR * baseline_points - sumB * recent_points) * MS,
                     recent_points * Max(SUSTAINED_BASELINE_DENOMINATOR_FLOOR * baseline_points, sumB))
        slope_per_point == linear_slope(values)
        consistency == consistency_ratio(values)
    IN  IF n < recent_points + baseline_points THEN None
        ELSE IF baseline_slice = <<>> THEN None
        ELSE Some([points_count |-> n,
                   growth_rate |-> growth_rate,
                   slope_per_point |-> slope_per_point,
                   consistency_ratio |-> consistency,
                   sustained_score |->
                       score_sustained_metrics(growth_rate, slope_per_point, consistency),
                   direction |-> classify_direction(growth_rate, slope_per_point, consistency)])

(***************************************************************************)
(* Filtering, ranking, scoring                                             *)
(***************************************************************************)
\* Plausible slip: only an exact match with an exclusion is dropped.
filter_candidates_exact_match(candidate_map, excluded_keywords) ==
    {k \in DOMAIN candidate_map :
        /\ normalize_keyword(candidate_map[k].keyword) # <<>>
        /\ Lower(normalize_keyword(candidate_map[k].keyword)) \notin excluded_keywords}

\* engine.py _filter_candidates: the keys of the accumulators kept.
filter_candidates(candidate_map, excluded_keywords) ==
    {k \in DOMAIN candidate_map :
        /\ normalize_keyword(candidate_map[k].keyword) # <<>>
        /\ ~is_excluded(normalize_keyword(candidate_map[k].keyword), excluded_keywords)}

\* sorted(..., key=lambda item: (-points(item), item.keyword.lower())) over
\* the accumulators with the given keys; points maps each key to its sum.
RECURSIVE SortedByPoints(_, _, _)
SortedByPoints(candidate_map, keys, points) ==
    IF keys = {} THEN <<>>
    ELSE LET first == CHOOSE x \in keys : \A y \in keys \ {x} :
                          \/ points[x] > points[y]
                          \/ /\ points[x] = points[y]
                             /\ StrLess(Lower(candidate_map[x].keyword),
                                        Lower(candidate_map[y].keyword))
         IN  <<first>> \o SortedByPoints(candidate_map, keys \ {first}, points)

\* Python's seq[:n], also for negative n.
SliceTo(seq, n) ==
    IF n >= 0 THEN SubSeq(seq, 1, Min(n, Len(seq)))
    ELSE SubSeq(seq, 1, Max(0, Len(seq) + n))

\* Plausible slip: the shortlist ranked like the sustained selection, by
\* search and trend points only.
shortlist_candidates_without_sustained(candidate_map, filtered_candidates, max_candidates) ==
    LET points == [k \in filtered_candidates |->
                      candidate_map[k].search_points + candidate_map[k].trend_points]
    IN  SliceTo(SortedByPoints(candidate_map, filtered_candidates, points), max_candidates)

\* engine.py _shortlist_candidates
shortlist_candidates(candidate_map, filtered_candidates, max_candidates) ==
    LET points == [k \in filtered_candidates |->
                      candidate_map[k].search_points + candidate_map[k].trend_points
                      + candidate_map[k].sustained_points]
    IN  SliceTo(SortedByPoints(candidate_map, filtered_candidates, points), max_candidates)

\* engine.py _collect_sustained_trend_signals, lines 349-356: candidates of
\* the ranked list with enough relevance, until max_terms are selected (the
\* length is tested after the append).
RECURSIVE SelectFrom(_, _, _, _, _, _)
SelectFrom(candidate_map, ranked, seed_keywords, max_terms, i, selected) ==
    IF i > Len(ranked) THEN selected
    ELSE IF keyword_relevance(candidate_map[ranked[i]].keyword, seed_keywords)
                < MIN_RELEVANCE_FOR_SUSTAINED_TRENDS
         THEN SelectFrom(candidate_map, ranked, seed_keywords, max_terms, i + 1, selected)
    ELSE IF Len(selected) + 1 >= max_terms THEN Append(selected, ranked[i])
    ELSE SelectFrom(candidate_map, ranked, seed_keywords, max_terms, i + 1,
                    Append(selected, ranked[i]))

\* engine.py _collect_sustained_trend_signals, lines 345-356
select_sustained_candidates(candidate_map, filtered_candidates, seed_keywords, max_terms) ==
    LET points == [k \in filtered_candidates |->
                      candidate_map[k].search_points + candidate_map[k].trend_points]
        ranked == SortedByPoints(candidate_map, filtered_candidates, points)
    IN  SelectFrom(candidate_map, ranked, seed_keywords, max_terms, 1, <<>>)

\* engine.py _score_quality_fit
score_quality_fit(keyword, positioning_mode) ==
    LET keyword_lower == Lower(keyword)
        positives == Cardinality({t \in QUALITY_POSITIVE_TOKENS : Contains(keyword_lower, t)})
        negatives == Cardinality({t \in QUALITY_NEGATIVE_TOKENS : Contains(keyword_lower, t)})
        score == QUALITY_SCORE_BASELINE + positives * QUALITY_POSITIVE_TOKEN_BOOST
                 - negatives * QUALITY_NEGATIVE_TOKEN_PENALTY
                 - (IF positioning_mode = "quality"
                    THEN negatives * QUALITY_NEGATIVE_TOKEN_PENALTY ELSE 0)
    IN  clamp(score, QUALITY_SCORE_MIN, QUALITY_SCORE_MAX)

\* Plausible slip: coverage counted for every snapshot, whatever its status.
score_marketplace_snapshots_counting_all(snapshots) ==
    LET ok == {i \in 1..Len(snapshots) : snapshots[i].status = "ok"}
        counted == {i \in ok : /\ snapshots[i].total_results_estimate # None
                               /\ snapshots[i].total_results_estimate[1] > 0}
        coverage_count == Len(snapshots)
        result_signal ==
            SumSeq([i \in 1..Len(snapshots) |->
                IF i \in counted
                THEN log_scaled(Min(snapshots[i].total_results_estimate[1], MARKETPLACE_RESULT_CAP))
                ELSE 0])
        sample_count ==
            SumSeq([i \in 1..Len(snapshots) |->
                IF i \in ok THEN Len(snapshots[i].sample_products) ELSE 0])
        score == coverage_count * MARKETPLACE_COVERAGE_WEIGHT * PU
                 + result_signal * MARKETPLACE_RESULTS_WEIGHT
                 + sample_count * MARKETPLACE_SAMPLE_TITLES_WEIGHT * PU
    IN  Min(COMPONENT_SCORE_CAP, score)

\* engine.py _score_marketplace_snapshots
score_marketplace_snapshots(snapshots) ==
    LET ok == {i \in 1..Len(snapshots) : snapshots[i].status = "ok"}
        counted == {i \in ok : /\ snapshots[i].total_results_estimate # None
                               /\ snapshots[i].total_results_estimate[1] > 0}
        coverage_count == Cardinality(counted)
        result_signal ==
            SumSeq([i \in 1..Len(snapshots) |->
                IF i \in counted
                THEN log_scaled(Min(snapshots[i].total_results_estimate[1], MARKETPLACE_RESULT_CAP))
                ELSE 0])
        sample_count ==
            SumSeq([i \in 1..Len(snapshots) |->
                IF i \in ok THEN Len(snapshots[i].sample_products) ELSE 0])
        score == coverage_count * MARKETPLACE_COVERAGE_WEIGHT * PU
                 + result_signal * MARKETPLACE_RESULTS_WEIGHT
                 + sample_count * MARKETPLACE_SAMPLE_TITLES_WEIGHT * PU
    IN  Min(COMPONENT_SCORE_CAP, score)

\* The disable markers of _should_disable_marketplace
DisableMarkers ==
    {<<"m", "i", "s", "s", "i", "n", "g", " ", "_", "_", "n", "e", "x", "t", "_", "d", "a", "t", "a", "_", "_", " ", "s", "c", "r", "i", "p", "t">>,
     <<"m", "i", "s", "s", "i", "n", "g", " ", "a", "p", "i", " ", "k", "e", "y">>,
     <<"h", "t", "t", "p", " ", "e", "r", "r", "o", "r", " ", "4", "0", "3">>,
     <<"h", "t", "t", "p", " ", "e", "r", "r", "o", "r", " ", "4", "2", "9">>,
     <<"p", "r", "e", "c", "o", "n", "d", "i", "t", "i", "o", "n", " ", "f", "a", "i", "l", "e", "d">>,
     <<"a", "c", "c", "e", "s", "s", " ", "d", "e", "n", "i", "e", "d">>,
     <<"p", "a", "r", "d", "o", "n", " ", "o", "u", "r", " ", "i", "n", "t", "e", "r", "r", "u", "p", "t", "i", "o", "n">>}

\* Plausible slip: every failure of an adapter disables its marketplace.
should_disable_marketplace_any_failure(error_text) == Len(error_text) > 0

\* Plausible slip: the error text is matched without being lower-cased.
should_disable_marketplace_case_sensitive(error_text) ==
    \E marker \in DisableMarkers : Contains(error_text, marker)

\* engine.py _should_disable_marketplace
should_disable_marketplace(error_text) ==
    LET normalized == Lower(error_text)
    IN  \E marker \in DisableMarkers : Contains(normalized, marker)

(***************************************************************************)
(* Recommendation policy                                                   *)
(***************************************************************************)
\* Plausible slip: the test tier written as a band that ends where the
\* add_now tier begins.
inventory_recommendation_banded(total_score, sustained_score, marketplace_score, quality_fit_score, positioning_mode) ==
    LET T == INVENTORY_RECOMMENDATION_THRESHOLDS
        quality_required == positioning_mode = "quality"
        add_now_quality_ok ==
            IF quality_required THEN quality_fit_score >= T.add_now_quality_min ELSE TRUE
        test_quality_ok ==
            IF quality_required THEN quality_fit_score >= T.test_batch_quality_min ELSE TRUE
    IN  IF /\ total_score >= T.add_now_total_min
           /\ sustained_score >= T.add_now_sustained_min
           /\ marketplace_score >= T.add_now_marketplace_min
           /\ add_now_quality_ok
        THEN "add_now"
        ELSE IF /\ total_score >= T.test_batch_total_min
                /\ total_score < T.add_now_total_min
                /\ sustained_score >= T.test_batch_sustained_min
                /\ test_quality_ok
        THEN "test_small_batch"
        ELSE IF total_score >= T.watchlist_total_min THEN "watchlist"
        ELSE "reject"

\* Plausible slip: the add_now tier forgets its marketplace gate.
inventory_recommendation_no_marketplace(total_score, sustained_score, marketplace_score, quality_fit_score, positioning_mode) ==
    LET T == INVENTORY_RECOMMENDATION_THRESHOLDS
        quality_required == positioning_mode = "quality"
        add_now_quality_ok ==
            IF quality_required THEN quality_fit_score >= T.add_now_quality_min ELSE TRUE
        test_quality_ok ==
            IF quality_required THEN quality_fit_score >= T.test_batch_quality_min ELSE TRUE
    IN  IF /\ total_score >= T.add_now_total_min
           /\ sustained_score >= T.add_now_sustained_min
           /\ add_now_quality_ok
        THEN "add_now"
        ELSE IF /\ total_score >= T.test_batch_total_min
                /\ sustained_score >= T.test_batch_sustained_min
                /\ test_quality_ok
        THEN "test_small_batch"
        ELSE IF total_score >= T.watchlist_total_min THEN "watchlist"
        ELSE "reject"

\* Plausible slip: the quality-fit gates applied in every mode but quality.
inventory_recommendation_gate_inverted(total_score, sustained_score, marketplace_score, quality_fit_score, positioning_mode) ==
    LET T == INVENTORY_RECOMMENDATION_THRESHOLDS
        quality_required == positioning_mode # "quality"
        add_now_quality_ok ==
            IF quality_required THEN quality_fit_score >= T.add_now_quality_min ELSE TRUE
        test_quality_ok ==
            IF quality_required THEN quality_fit_score >= T.test_batch_quality_min ELSE TRUE
    IN  IF /\ total_score >= T.add_now_total_min
           /\ sustained_score >= T.add_now_sustained_min
           /\ marketplace_score >= T.add_now_marketplace_min
           /\ add_now_quality_ok
        THEN "add_now"
        ELSE IF /\ total_score >= T.test_batch_total_min
                /\ sustained_score >= T.test_batch_sustained_min
                /\ test_quality_ok
        THEN "test_small_batch"
        ELSE IF total_score >= T.watchlist_total_min THEN "watchlist"
        ELSE "reject"

\* engine.py _inventory_recommendation
inventory_recommendation(total_score, sustained_score, marketplace_score, quality_fit_score, positioning_mode) ==
    LET T == INVENTORY_RECOMMENDATION_THRESHOLDS
        quality_required == positioning_mode = "quality"
        add_now_quality_ok ==
            IF quality_required THEN quality_fit_score >= T.add_now_quality_min ELSE TRUE
        test_quality_ok ==
            IF quality_required THEN quality_fit_score >= T.test_batch_quality_min ELSE TRUE
    IN  IF /\ total_score >= T.add_now_total_min
           /\ sustained_score >= T.add_now_sustained_min
           /\ marketplace_score >= T.add_now_marketplace_min
           /\ add_now_quality_ok
        THEN "add_now"
        ELSE IF /\ total_score >= T.test_batch_total_min
                /\ sustained_score >= T.test_batch_sustained_min
                /\ test_quality_ok
        THEN "test_small_batch"
        ELSE IF total_score >= T.watchlist_total_min THEN "watchlist"
        ELSE "reject"

(***************************************************************************)
(* Normalisation specification: the input is any string made of a short    *)
(* head, a run of letters whose length is 0 or close to MAX_KEYWORD_LENGTH *)
(* and a short tail, over letters and whitespace.                          *)
(***************************************************************************)
MaxHead == 1

MaxTail == 3

NormAlphabet == {"a", " ", "\t"}

NormPadLens == {0} \cup ((MAX_KEYWORD_LENGTH - 3)..(MAX_KEYWORD_LENGTH + 1))

NormInputs ==
    {h \o Pad("a", n) \o t :
        h \in StrsUpTo(NormAlphabet, MaxHead),
        n \in NormPadLens,
        t \in StrsUpTo(NormAlphabet, MaxTail)}

NormIdle == n_in = <<>> /\ n_out = <<>> /\ n_out2 = <<>> /\ n_pc = "idle"

\* candidate_map: dict[str, _CandidateAccumulator] = {}
EmptyLedger == [k \in {} |-> CandidateAccumulator(<<>>)]

LedIdle ==
    /\ l_obs = <<>> /\ l_mapA = EmptyLedger /\ l_nA = 0
    /\ l_mapB = EmptyLedger /\ l_takenB = {} /\ l_pc = "idle"

RecIdle ==
    /\ r_total = 0 /\ r_sust = 0 /\ r_mkt = 0 /\ r_qual = 0
    /\ r_mode = "balanced" /\ r_tier = "none" /\ r_pc = "idle"

\* The locals of a run that has not been entered.
RunLocalsInitial ==
    /\ d_fetcher_built = FALSE
    /\ d_seed_keywords = <<>>
    /\ d_excluded_keywords = {}
    /\ d_candidate_map = EmptyLedger
    /\ d_warnings = <<>>
    /\ d_search_expansions = <<>>
    /\ d_trend_signals = <<>>
    /\ d_sustained_trend_signals = <<>>
    /\ d_seed_i = 1
    /\ d_filtered_candidates = {}
    /\ d_selected = <<>>
    /\ d_sust_i = 1
    /\ d_failure_count = 0
    /\ d_shortlisted_candidates = <<>>
    /\ d_scan_k = 1
    /\ d_scan_m = 1
    /\ d_snapshots = <<>>
    /\ d_marketplace_unavailable = [m \in {} |-> <<>>]
    /\ d_opportunities = <<>>
    /\ d_report = None
    /\ d_calls = <<>>

RunIdle ==
    /\ d_scope = [seed_keywords |-> <<>>, excluded_keywords |-> <<>>,
                positioning_mode |-> "balanced"]
    /\ d_config = [marketplaces |-> <<>>, max_sustained_trend_terms |-> 0,
                 max_marketplace_terms |-> 0]
    /\ d_pc = "idle"
    /\ RunLocalsInitial

ExpIdle ==
    /\ e_before = EmptyLedger /\ e_candidate_map = EmptyLedger
    /\ e_suggestions = <<>> /\ e_source = "none" /\ e_round = 0

DirIdle ==
    /\ c_growth_rate = 0 /\ c_slope_per_point = 0 /\ c_consistency = 0
    /\ c_direction = "none" /\ c_pc = "idle"

NormInit ==
    /\ n_in \in NormInputs
    /\ n_out = <<>>
    /\ n_out2 = <<>>
    /\ n_pc = "input"
    /\ RecIdle
    /\ LedIdle
    /\ RunIdle
    /\ ExpIdle
    /\ DirIdle

\* First application of _normalize_keyword.
NormalizeOnce ==
    /\ n_pc = "input"
    /\ n_out' = normalize_keyword(n_in)
    /\ n_pc' = "once"
    /\ UNCHANGED <<n_in, n_out2, recVars, ledVars, runVars, expVars, dirVars>>

\* _normalize_keyword applied to its own result (as _filter_candidates does
\* with the display keyword the ledger stored).
NormalizeTwice ==
    /\ n_pc = "once"
    /\ n_out2' = normalize_keyword(n_out)
    /\ n_pc' = "twice"
    /\ UNCHANGED <<n_in, n_out, recVars, ledVars, runVars, expVars, dirVars>>

NormNext == NormalizeOnce \/ NormalizeTwice

SpecNorm == NormInit /\ [][NormNext]_vars

\* C9: normalisation is idempotent: normalising the normalised keyword
\* returns it unchanged, for rejected (empty), ordinary and truncated inputs.
NormalizeIdempotent == n_pc = "twice" => n_out2 = n_out

\* C9 witness: an input longer than MAX_KEYWORD_LENGTH whose cut ended in
\* whitespace was truncated, right-trimmed and normalised again.
NormalizeIdempotentWitness ==
    /\ n_pc = "twice"
    /\ Len(CollapseWhitespace(Strip(n_in))) > MAX_KEYWORD_LENGTH
    /\ IsSpace(CollapseWhitespace(Strip(n_in))[MAX_KEYWORD_LENGTH])
    /\ Len(n_out) = MAX_KEYWORD_LENGTH - 1
    /\ n_out2 = n_out

(***************************************************************************)
(* Recommendation specification: _inventory_recommendation is applied to   *)
(* scores on a grid of 0..100 that holds every multiple of 5 points (for   *)
(* the total) or the gate values (for the other scores) and the values up  *)
(* to RecSpread units below each; the total is then raised and the         *)
(* function applied again.                                                 *)
(***************************************************************************)
RecSpread == 1

Below(anchors) ==
    {a * PU - d : a \in anchors, d \in 0..RecSpread} \cap (0..COMPONENT_SCORE_CAP)

RecTotals == Below({5 * k : k \in 0..20})

RecSustained == Below({0, 45, 60, 100})

RecMarketplace == Below({0, 45, 100})

RecQuality == Below({0, 45, 55, 100})

RecInit ==
    /\ r_total \in RecTotals
    /\ r_sust \in RecSustained
    /\ r_mkt \in RecMarketplace
    /\ r_qual \in RecQuality
    /\ r_mode \in SUPPORTED_POSITIONING_MODES
    /\ r_tier = "none"
    /\ r_pc = "input"
    /\ NormIdle
    /\ LedIdle
    /\ RunIdle
    /\ ExpIdle
    /\ DirIdle

\* The call of _inventory_recommendation in run_product_discovery.
Recommend ==
    /\ r_pc = "input"
    /\ r_tier' = inventory_recommendation(r_total, r_sust, r_mkt, r_qual, r_mode)
    /\ r_pc' = "rated"
    /\ UNCHANGED <<r_total, r_sust, r_mkt, r_qual, r_mode, normVars, ledVars, runVars, expVars, dirVars>>

\* The same call with a higher total and the other arguments fixed.
RecommendHigherTotal ==
    /\ r_pc = "rated"
    /\ \E t \in RecTotals :
          /\ t > r_total
          /\ r_total' = t
          /\ r_tier' = inventory_recommendation(t, r_sust, r_mkt, r_qual, r_mode)
    /\ UNCHANGED <<r_sust, r_mkt, r_qual, r_mode, r_pc, normVars, ledVars, runVars, expVars, dirVars>>

RecNext == Recommend \/ RecommendHigherTotal

SpecRec == RecInit /\ [][RecNext]_vars

TierRank(tier) ==
    CASE tier = "reject" -> 0
      [] tier = "watchlist" -> 1
      [] tier = "test_small_batch" -> 2
      [] tier = "add_now" -> 3

\* C8: tiers are monotonic in the total score: with sustained, marketplace
\* and quality-fit scores and the mode fixed, a higher total never yields a
\* lower tier (reject < watchlist < test_small_batch < add_now).
TierMonotonicInTotal ==
    [][(r_pc = "rated" /\ r_pc' = "rated" /\ r_total' >= r_total)
          => TierRank(r_tier') >= TierRank(r_tier)]_vars

\* C8 witness: a candidate rated test_small_batch whose add_now gates are
\* not all met has had its total raised to 70 or more.
TierMonotonicInTotalWitness ==
    /\ r_pc = "rated"
    /\ r_total >= 70 * PU
    /\ r_sust >= 45 * PU
    /\ r_mkt < 45 * PU
    /\ r_tier = "test_small_batch"

\* C10: the policy is first-match over the tiers: add_now iff total >= 70,
\* sustained >= 60, marketplace >= 45 (and quality-fit >= 55 in quality
\* mode); else test_small_batch iff total >= 55, sustained >= 45 (and
\* quality-fit >= 45 in quality mode); else watchlist iff total >= 40; else
\* reject.
RecommendationPolicy ==
    r_pc = "rated" =>
        LET q == r_mode = "quality"
            addNow == /\ r_total >= 70 * PU /\ r_sust >= 60 * PU /\ r_mkt >= 45 * PU
                      /\ (q => r_qual >= 55 * PU)
            test == /\ r_total >= 55 * PU /\ r_sust >= 45 * PU
                    /\ (q => r_qual >= 45 * PU)
            watch == r_total >= 40 * PU
        IN  /\ (r_tier = "add_now") <=> addNow
            /\ (r_tier = "test_small_batch") <=> (~addNow /\ test)
            /\ (r_tier = "watchlist") <=> (~addNow /\ ~test /\ watch)
            /\ (r_tier = "reject") <=> (~addNow /\ ~test /\ ~watch)

\* C10 witness: in quality mode a candidate that meets every add_now score
\* gate but has quality-fit between 45 and 55 is rated test_small_batch.
RecommendationPolicyWitness ==
    /\ r_pc = "rated"
    /\ r_mode = "quality"
    /\ r_total >= 70 * PU /\ r_sust >= 60 * PU /\ r_mkt >= 45 * PU
    /\ r_qual >= 45 * PU /\ r_qual < 55 * PU
    /\ r_tier = "test_small_batch"

(***************************************************************************)
(* Ledger specification: a list of at most MaxObs observations is applied  *)
(* to an empty ledger in the order given, then to a second empty ledger in *)
(* any order.                                                              *)
(***************************************************************************)
MaxObs == 3

\* "ab", "Ab" (the same key in another case), "cd" and "a" (too short).
ObsKeywords == {<<"a", "b">>, <<"A", "b">>, <<"c", "d">>, <<"a">>}

ObsPayloads ==
    {[search_points |-> 6 * PU, trend_points |-> 0,
      source |-> "seed_keyword", trend_traffic_estimate |-> 5000],
     [search_points |-> (3 * PU) \div 2, trend_points |-> 14 * PU,
      source |-> "google_trends_rss", trend_traffic_estimate |-> 999],
     [search_points |-> 3 * PU, trend_points |-> 20 * PU,
      source |-> "google_trends_rss", trend_traffic_estimate |-> 99]}

Observations == {[keyword |-> k, payload |-> p] : k \in ObsKeywords, p \in ObsPayloads}

ObservationLists == UNION {[1..n -> Observations] : n \in 0..MaxObs}

Observe(candidate_map, o) ==
    add_candidate(candidate_map, o.keyword, o.payload.search_points, o.payload.trend_points,
                  o.payload.source, o.payload.trend_traffic_estimate)

LedInit ==
    /\ l_obs \in ObservationLists
    /\ l_mapA = EmptyLedger
    /\ l_nA = 0
    /\ l_mapB = EmptyLedger
    /\ l_takenB = {}
    /\ l_pc = "first"
    /\ NormIdle
    /\ RecIdle
    /\ RunIdle
    /\ ExpIdle
    /\ DirIdle

\* _add_candidate on the first ledger, observations in the order given.
AddInOrder ==
    /\ l_pc = "first"
    /\ l_nA < Len(l_obs)
    /\ l_mapA' = Observe(l_mapA, l_obs[l_nA + 1])
    /\ l_nA' = l_nA + 1
    /\ UNCHANGED <<l_obs, l_mapB, l_takenB, l_pc, normVars, recVars, runVars, expVars, dirVars>>

FirstOrderDone ==
    /\ l_pc = "first"
    /\ l_nA = Len(l_obs)
    /\ l_pc' = "second"
    /\ UNCHANGED <<l_obs, l_mapA, l_nA, l_mapB, l_takenB, normVars, recVars, runVars, expVars, dirVars>>

\* _add_candidate on the second ledger, any observation not yet applied.
AddInAnyOrder ==
    /\ l_pc = "second"
    /\ \E i \in (1..Len(l_obs)) \ l_takenB :
          /\ l_mapB' = Observe(l_mapB, l_obs[i])
          /\ l_takenB' = l_takenB \cup {i}
    /\ UNCHANGED <<l_obs, l_mapA, l_nA, l_pc, normVars, recVars, runVars, expVars, dirVars>>

SecondOrderDone ==
    /\ l_pc = "second"
    /\ l_takenB = 1..Len(l_obs)
    /\ l_pc' = "done"
    /\ UNCHANGED <<l_obs, l_mapA, l_nA, l_mapB, l_takenB, normVars, recVars, runVars, expVars, dirVars>>

LedNext == AddInOrder \/ FirstOrderDone \/ AddInAnyOrder \/ SecondOrderDone

SpecLedger == LedInit /\ [][LedNext]_vars

KwSeed == <<"a", "b", " ", "c", "d">>

KwSeedSpelled == <<" ", "A", "b", " ", " ", "c", "d", " ">>

KwTooShort == <<"a">>

KwSeedEf == <<"a", "b", " ", "c", "d", " ", "e", "f">>

KwCdGh == <<"c", "d", " ", "g", "h">>

KwXy == <<"x", "y">>

KwEfRaw == <<" ", "E", "F", " ">>

ErrTimedOut == <<"t", "i", "m", "e", "d", " ", "o", "u", "t">>

ErrHttp429 == <<"H", "T", "T", "P", " ", "E", "r", "r", "o", "r", " ", "4", "2", "9">>

\* More seeds than MAX_SEED_KEYWORDS, all different: "k" and two digits.
TooManySeeds ==
    [i \in 1..(MAX_SEED_KEYWORDS + 1) |->
        <<"k", Digits[(i \div 10) + 1], Digits[(i % 10) + 1]>>]

Scopes ==
    {[seed_keywords |-> <<KwSeed>>, excluded_keywords |-> <<>>,
      positioning_mode |-> "balanced"],
     [seed_keywords |-> <<KwSeedSpelled, KwSeed, KwTooShort>>,
      excluded_keywords |-> <<KwEfRaw>>, positioning_mode |-> "quality"]}

Configs ==
    {[marketplaces |-> <<"amazon", "walmart">>, max_sustained_trend_terms |-> 3,
      max_marketplace_terms |-> 3],
     [marketplaces |-> <<"walmart">>, max_sustained_trend_terms |-> 1,
      max_marketplace_terms |-> 1]}

\* Arguments that validation rejects.
InvalidScopes ==
    {[seed_keywords |-> <<>>, excluded_keywords |-> <<>>, positioning_mode |-> "balanced"],
     [seed_keywords |-> <<KwTooShort, <<" ">>>>, excluded_keywords |-> <<>>,
      positioning_mode |-> "balanced"],
     [seed_keywords |-> TooManySeeds, excluded_keywords |-> <<>>,
      positioning_mode |-> "balanced"],
     [seed_keywords |-> <<KwSeed>>, excluded_keywords |-> <<>>, positioning_mode |-> "luxury"]}

InvalidConfigs ==
    {[marketplaces |-> <<"amazon", "ebay">>, max_sustained_trend_terms |-> 1,
      max_marketplace_terms |-> 1]}

\* fetch_google_suggestions and fetch_amazon_suggestions, when they return
SuggestionsFor(source, seed_keyword) ==
    IF source = "google_suggest" THEN <<KwSeedEf, KwCdGh>> ELSE <<KwCdGh, KwXy, KwTooShort>>

\* fetch_google_trends_rss, when it returns
TrendRecords ==
    <<[query |-> KwCdGh, rank |-> 1, approx_traffic_estimate |-> 10 ^ 3 - 1],
      [query |-> KwXy, rank |-> 2, approx_traffic_estimate |-> 10 ^ 5 - 1]>>

\* fetch_google_trends_timeseries, when it returns: a rising series for the
\* seed, too few points for "ab cd ef", a falling series for the others.
TimeseriesFor(keyword) ==
    IF Lower(keyword) = KwSeed THEN [i \in 1..16 |-> IF i <= 8 THEN 10 ELSE 20]
    ELSE IF Lower(keyword) = KwSeedEf THEN <<1, 2, 3>>
    ELSE [i \in 1..16 |-> IF i <= 8 THEN 40 ELSE 20]

\* scan_<marketplace>_marketplace, when it returns
ScanResultFor(marketplace, keyword) ==
    IF marketplace = "amazon"
    THEN [total_results_estimate |-> Some(10 ^ 4 - 1), sample_products |-> <<"title 1", "title 2">>]
    ELSE [total_results_estimate |-> None, sample_products |-> <<"title 3">>]

\* The error texts an external call raises with.
FetchErrors == {ErrTimedOut}

ScanErrors == {ErrTimedOut, ErrHttp429}

Warning(kind, keyword, marketplace, exc) ==
    [kind |-> kind, keyword |-> keyword, marketplace |-> marketplace, exc |-> exc]

Call(source, keyword, marketplace, ok, exc) ==
    [source |-> source, keyword |-> keyword, marketplace |-> marketplace,
     ok |-> ok, exc |-> exc]

KwXySpelled == <<"X", "y">>

KwXyZ == <<"x", "y", " ", "z">>

\* Further runs: a marketplace configured twice; two seeds with an exclusion
\* that contains one of them; limits of 0; a shortlist of one with two
\* sustained terms.
MoreRuns ==
    {[scope |-> [seed_keywords |-> <<KwSeed>>, excluded_keywords |-> <<>>,
                 positioning_mode |-> "balanced"],
      config |-> [marketplaces |-> <<"walmart", "walmart">>,
                  max_sustained_trend_terms |-> 1, max_marketplace_terms |-> 2]],
     [scope |-> [seed_keywords |-> <<KwSeed, KwXySpelled>>, excluded_keywords |-> <<KwXyZ>>,
                 positioning_mode |-> "balanced"],
      config |-> [marketplaces |-> <<"walmart">>,
                  max_sustained_trend_terms |-> 1, max_marketplace_terms |-> 2]],
     [scope |-> [seed_keywords |-> <<KwSeed>>, excluded_keywords |-> <<>>,
                 positioning_mode |-> "balanced"],
      config |-> [marketplaces |-> <<"walmart">>,
                  max_sustained_trend_terms |-> 0, max_marketplace_terms |-> 0]],
     [scope |-> [seed_keywords |-> <<KwSeed>>, excluded_keywords |-> <<>>,
                 positioning_mode |-> "balanced"],
      config |-> [marketplaces |-> <<"walmart">>,
                  max_sustained_trend_terms |-> 2, max_marketplace_terms |-> 1]]}

RunInit ==
    /\ \/ d_scope \in Scopes /\ d_config \in Configs
       \/ d_scope \in InvalidScopes /\ d_config \in Configs
       \/ d_scope \in Scopes /\ d_config \in InvalidConfigs
       \/ \E run \in MoreRuns : d_scope = run.scope /\ d_config = run.config
    /\ d_pc = "start"
    /\ RunLocalsInitial
    /\ NormIdle
    /\ RecIdle
    /\ LedIdle
    /\ ExpIdle
    /\ DirIdle

RECURSIVE SeedLedgerFrom(_, _, _)
SeedLedgerFrom(ledger, seeds, i) ==
    IF i > Len(seeds) THEN ledger
    ELSE SeedLedgerFrom(
             add_candidate(ledger, seeds[i], SEARCH_SOURCE_WEIGHTS["seed_keyword"], 0,
                           "seed_keyword", 0),
             seeds, i + 1)

\* run_product_discovery, lines 86-101: the position after validation.
validation_outcome(seeds, marketplaces, positioning_mode) ==
    IF seeds = <<>> THEN "raised"
    ELSE IF Len(seeds) > MAX_SEED_KEYWORDS THEN "raised"
    ELSE IF ~validate_marketplaces(marketplaces) THEN "raised"
    ELSE IF ~validate_positioning_mode(positioning_mode) THEN "raised"
    ELSE "google"

\* run_product_discovery up to the first external call (lines 86-118)
StartRun ==
    /\ d_pc = "start"
    /\ LET seeds == normalize_seed_keywords(d_scope.seed_keywords)
           outcome == validation_outcome(seeds, d_config.marketplaces,
                                         d_scope.positioning_mode)
       IN  /\ d_pc' = outcome
           /\ d_seed_keywords' = seeds
           /\ IF outcome = "raised"
              THEN UNCHANGED <<d_excluded_keywords, d_fetcher_built, d_candidate_map>>
              ELSE /\ d_excluded_keywords' = normalize_exclusions(d_scope.excluded_keywords)
                   /\ d_fetcher_built' = TRUE
                   /\ d_candidate_map' = SeedLedgerFrom(EmptyLedger, seeds, 1)
    /\ UNCHANGED <<d_scope, d_config, d_warnings, d_search_expansions, d_trend_signals,
                   d_sustained_trend_signals, d_seed_i, d_filtered_candidates, d_selected,
                   d_sust_i, d_failure_count, d_shortlisted_candidates, d_scan_k, d_scan_m,
                   d_snapshots, d_marketplace_unavailable, d_opportunities, d_report, d_calls>>
    /\ UNCHANGED <<normVars, recVars, ledVars, expVars, dirVars>>

\* _collect_search_expansions, one suggest call and what follows it
\* (lines 241-263 for Google, 265-286 for Amazon).
SuggestStep(source, failed_kind, next_pc, next_seed_i) ==
    LET seed_keyword == d_seed_keywords[d_seed_i]
    IN  /\ \/ \E exc \in FetchErrors :
                /\ d_calls' = Append(d_calls, Call(source, seed_keyword, "", FALSE, exc))
                /\ d_warnings' = Append(d_warnings, Warning(failed_kind, seed_keyword, "", exc))
                /\ UNCHANGED <<d_search_expansions, d_candidate_map>>
           \/ LET suggestions == SuggestionsFor(source, seed_keyword)
              IN  /\ d_calls' = Append(d_calls, Call(source, seed_keyword, "", TRUE, <<>>))
                  /\ d_search_expansions' =
                        IF suggestions = <<>> THEN d_search_expansions
                        ELSE Append(d_search_expansions,
                                    [seed_keyword |-> seed_keyword, source |-> source,
                                     suggestions |-> suggestions])
                  /\ d_candidate_map' =
                        IF suggestions = <<>> THEN d_candidate_map
                        ELSE apply_ranked_suggestions(d_candidate_map, suggestions, source)
                  /\ UNCHANGED d_warnings
        /\ d_pc' = next_pc
        /\ d_seed_i' = next_seed_i
        /\ UNCHANGED <<d_scope, d_config, d_fetcher_built, d_seed_keywords,
                       d_excluded_keywords, d_trend_signals, d_sustained_trend_signals,
                       d_filtered_candidates, d_selected, d_sust_i, d_failure_count,
                       d_shortlisted_candidates, d_scan_k, d_scan_m, d_snapshots,
                       d_marketplace_unavailable, d_opportunities, d_report>>
        /\ UNCHANGED <<normVars, recVars, ledVars, expVars, dirVars>>

GoogleSuggest ==
    /\ d_pc = "google"
    /\ SuggestStep("google_suggest", "google_suggest_failed", "amazon", d_seed_i)

AmazonSuggest ==
    /\ d_pc = "amazon"
    /\ SuggestStep("amazon_suggest", "amazon_suggest_failed",
                   IF d_seed_i < Len(d_seed_keywords) THEN "google" ELSE "trends",
                   d_seed_i + 1)

\* Plausible slip: the relevance gate guards the signal only, and every
\* record of the feed reaches the ledger.
RECURSIVE ApplyTrendRecordsUngated(_, _, _, _, _)
ApplyTrendRecordsUngated(signals, ledger, records, seeds, i) ==
    IF i > Len(records) THEN [trend_signals |-> signals, candidate_map |-> ledger]
    ELSE LET record == records[i]
             relevance == keyword_relevance(record.query, seeds)
             trend_points ==
                 relevance * TREND_RELEVANCE_MULTIPLIER
                 + log_scaled(record.approx_traffic_estimate) * TREND_TRAFFIC_MULTIPLIER
         IN  ApplyTrendRecordsUngated(
                 IF relevance < MIN_RELEVANCE_FOR_TRENDS THEN signals
                 ELSE Append(signals,
                             [query |-> record.query, source |-> "google_trends_rss",
                              rank |-> record.rank,
                              approx_traffic_estimate |-> record.approx_traffic_estimate,
                              relevance_score |-> relevance]),
                 add_candidate(ledger, record.query,
                               (SEARCH_SOURCE_WEIGHTS["google_trends"] * relevance) \div PU,
                               trend_points, "google_trends_rss",
                               record.approx_traffic_estimate),
                 records, seeds, i + 1)

\* _collect_trend_signals, lines 308-333: the records of the feed applied
\* in order; the result is the pair of the signals and the ledger.
RECURSIVE ApplyTrendRecordsFrom(_, _, _, _, _)
ApplyTrendRecordsFrom(signals, ledger, records, seeds, i) ==
    IF i > Len(records) THEN [trend_signals |-> signals, candidate_map |-> ledger]
    ELSE LET record == records[i]
             relevance == keyword_relevance(record.query, seeds)
             trend_points ==
                 relevance * TREND_RELEVANCE_MULTIPLIER
                 + log_scaled(record.approx_traffic_estimate) * TREND_TRAFFIC_MULTIPLIER
         IN  IF relevance < MIN_RELEVANCE_FOR_TRENDS
             THEN ApplyTrendRecordsFrom(signals, ledger, records, seeds, i + 1)
             ELSE ApplyTrendRecordsFrom(
                      Append(signals,
                             [query |-> record.query, source |-> "google_trends_rss",
                              rank |-> record.rank,
                              approx_traffic_estimate |-> record.approx_traffic_estimate,
                              relevance_score |-> relevance]),
                      add_candidate(ledger, record.query,
                                    (SEARCH_SOURCE_WEIGHTS["google_trends"] * relevance) \div PU,
                                    trend_points, "google_trends_rss",
                                    record.approx_traffic_estimate),
                      records, seeds, i + 1)

\* _collect_trend_signals
TrendFeed ==
    /\ d_pc = "trends"
    /\ \/ \E exc \in FetchErrors :
            /\ d_calls' = Append(d_calls, Call("google_trends_rss", <<>>, "", FALSE, exc))
            /\ d_warnings' = Append(d_warnings, Warning("google_trends_rss_failed", <<>>, "", exc))
            /\ UNCHANGED <<d_trend_signals, d_candidate_map>>
       \/ LET applied == ApplyTrendRecordsFrom(d_trend_signals, d_candidate_map,
                                               TrendRecords, d_seed_keywords, 1)
          IN  /\ d_calls' = Append(d_calls, Call("google_trends_rss", <<>>, "", TRUE, <<>>))
              /\ d_trend_signals' = applied.trend_signals
              /\ d_candidate_map' = applied.candidate_map
              /\ UNCHANGED d_warnings
    /\ d_pc' = "filter"
    /\ UNCHANGED <<d_scope, d_config, d_fetcher_built, d_seed_keywords, d_excluded_keywords,
                   d_search_expansions, d_sustained_trend_signals, d_seed_i,
                   d_filtered_candidates, d_selected, d_sust_i, d_failure_count,
                   d_shortlisted_candidates, d_scan_k, d_scan_m, d_snapshots,
                   d_marketplace_unavailable, d_opportunities, d_report>>
    /\ UNCHANGED <<normVars, recVars, ledVars, expVars, dirVars>>

\* run_product_discovery line 137 and _collect_sustained_trend_signals up
\* to its fetch loop (lines 345-358)
FilterCandidates ==
    /\ d_pc = "filter"
    /\ LET filtered == filter_candidates(d_candidate_map, d_excluded_keywords)
           chosen == select_sustained_candidates(d_candidate_map, filtered, d_seed_keywords,
                                                 d_config.max_sustained_trend_terms)
       IN  /\ d_filtered_candidates' = filtered
           /\ d_selected' = chosen
           /\ d_pc' = IF chosen = <<>> THEN "shortlist" ELSE "sustained"
    /\ d_sust_i' = 1
    /\ d_failure_count' = 0
    /\ UNCHANGED <<d_scope, d_config, d_fetcher_built, d_seed_keywords, d_excluded_keywords,
                   d_candidate_map, d_warnings, d_search_expansions, d_trend_signals,
                   d_sustained_trend_signals, d_seed_i, d_shortlisted_candidates, d_scan_k,
                   d_scan_m, d_snapshots, d_marketplace_unavailable, d_opportunities,
                   d_report, d_calls>>
    /\ UNCHANGED <<normVars, recVars, ledVars, expVars, dirVars>>

\* Plausible slip: repeated failures are re-raised instead of ending the loop.
after_timeseries_reraise(i, count, tripped) ==
    IF tripped THEN "raised" ELSE IF i >= count THEN "shortlist" ELSE "sustained"

\* The fetch loop of _collect_sustained_trend_signals (lines 358-381): where
\* the run is after the fetch for candidate i of count, tripped when the
\* failure count has reached its limit (break), otherwise continue.
after_timeseries(i, count, tripped) ==
    IF tripped THEN "shortlist" ELSE IF i >= count THEN "shortlist" ELSE "sustained"

\* round(value, 2) of a fixed-point value: to the nearest hundredth.
Round2(value) == ((value + PU \div 200) \div (PU \div 100)) * (PU \div 100)

\* Plausible slip: a series that is too short is counted like a fetch that
\* failed.
fetch_failures_counting_short(failure_count, raised, values) ==
    IF raised \/ Len(values) < SUSTAINED_TREND_MIN_POINTS
    THEN failure_count + 1 ELSE failure_count

\* failure_count after one fetch (lines 369-381): incremented in the except
\* branch only; a fetch that returned, whatever the length of its series,
\* leaves it alone.
fetch_failures(failure_count, raised, values) ==
    IF raised THEN failure_count + 1 ELSE failure_count

\* _collect_sustained_trend_signals, one pass of the fetch loop (358-409)
TimeseriesFetch ==
    /\ d_pc = "sustained"
    /\ d_sust_i <= Len(d_selected)
    /\ LET key == d_selected[d_sust_i]
           candidate == d_candidate_map[key]
           relevance == keyword_relevance(candidate.keyword, d_seed_keywords)
           count == Len(d_selected)
       IN  \/ \E exc \in FetchErrors :
                LET tripped == d_failure_count + 1 >= MAX_SUSTAINED_TREND_FETCH_FAILURES
                IN  /\ d_calls' = Append(d_calls, Call("google_trends_timeseries",
                                                       candidate.keyword, "", FALSE, exc))
                    /\ d_warnings' =
                          Append(d_warnings, Warning("timeseries_failed", candidate.keyword, "", exc))
                          \o (IF tripped THEN <<Warning("timeseries_disabled", <<>>, "", <<>>)>>
                              ELSE <<>>)
                    /\ d_failure_count' = fetch_failures(d_failure_count, TRUE, <<>>)
                    /\ d_pc' = after_timeseries(d_sust_i, count, tripped)
                    /\ UNCHANGED <<d_candidate_map, d_sustained_trend_signals>>
           \/ LET values == TimeseriesFor(candidate.keyword)
                  metrics == compute_sustained_trend_metrics(
                                 values, SUSTAINED_TREND_RECENT_POINTS,
                                 SUSTAINED_TREND_BASELINE_POINTS)
                  used == Len(values) >= SUSTAINED_TREND_MIN_POINTS /\ metrics # None
              IN  /\ d_calls' = Append(d_calls, Call("google_trends_timeseries",
                                                     candidate.keyword, "", TRUE, <<>>))
                  /\ d_candidate_map' =
                        IF ~used THEN d_candidate_map
                        ELSE [d_candidate_map EXCEPT ![key] =
                                [@ EXCEPT
                                    !.sustained_points =
                                        @ + (metrics[1].sustained_score * relevance) \div PU,
                                    !.sustained_direction = metrics[1].direction,
                                    !.sources = @ \cup {"google_trends_timeseries"}]]
                  /\ d_sustained_trend_signals' =
                        IF ~used THEN d_sustained_trend_signals
                        ELSE Append(d_sustained_trend_signals,
                                    [query |-> candidate.keyword,
                                     source |-> "google_trends_timeseries",
                                     points_count |-> metrics[1].points_count,
                                     growth_rate |-> metrics[1].growth_rate,
                                     slope_per_point |-> metrics[1].slope_per_point,
                                     consistency_ratio |-> metrics[1].consistency_ratio,
                                     sustained_score |->
                                         Round2((metrics[1].sustained_score * relevance) \div PU),
                                     direction |-> metrics[1].direction,
                                     store_relevance |-> relevance])
                  /\ d_pc' = after_timeseries(d_sust_i, count, FALSE)
                  /\ d_failure_count' = fetch_failures(d_failure_count, FALSE, values)
                  /\ UNCHANGED d_warnings
    /\ d_sust_i' = d_sust_i + 1
    /\ UNCHANGED <<d_scope, d_config, d_fetcher_built, d_seed_keywords, d_excluded_keywords,
                   d_search_expansions, d_trend_signals, d_seed_i, d_filtered_candidates,
                   d_selected, d_shortlisted_candidates, d_scan_k, d_scan_m, d_snapshots,
                   d_marketplace_unavailable, d_opportunities, d_report>>
    /\ UNCHANGED <<normVars, recVars, ledVars, expVars, dirVars>>

\* run_product_discovery, lines 146-152
ShortlistCandidates ==
    /\ d_pc = "shortlist"
    /\ LET shortlisted == shortlist_candidates(d_candidate_map, d_filtered_candidates,
                                               d_config.max_marketplace_terms)
       IN  /\ d_shortlisted_candidates' = shortlisted
           /\ d_pc' = IF shortlisted = <<>> THEN "assemble" ELSE "scan"
    /\ d_scan_k' = 1
    /\ d_scan_m' = 1
    /\ d_snapshots' = <<>>
    /\ UNCHANGED <<d_scope, d_config, d_fetcher_built, d_seed_keywords, d_excluded_keywords,
                   d_candidate_map, d_warnings, d_search_expansions, d_trend_signals,
                   d_sustained_trend_signals, d_seed_i, d_filtered_candidates, d_selected,
                   d_sust_i, d_failure_count, d_marketplace_unavailable, d_opportunities,
                   d_report, d_calls>>
    /\ UNCHANGED <<normVars, recVars, ledVars, expVars, dirVars>>

\* Plausible slip: a snapshot that carries a warning is tagged "error", so a
\* skipped marketplace is reported as a failed scan.
MarketplaceSnapshotTaggedByWarning(marketplace, query, status, total_results_estimate, sample_products, warning) ==
    [marketplace |-> marketplace, query |-> query,
     status |-> IF warning # None THEN "error" ELSE status,
     total_results_estimate |-> total_results_estimate,
     sample_products |-> sample_products, warning |-> warning]

MarketplaceSnapshot(marketplace, query, status, total_results_estimate, sample_products, warning) ==
    [marketplace |-> marketplace, query |-> query, status |-> status,
     total_results_estimate |-> total_results_estimate,
     sample_products |-> sample_products, warning |-> warning]

\* Plausible slip: a failed scan is reported only when it disables the
\* marketplace.
scan_failed_warnings_when_disabled(keyword, marketplace, exc) ==
    IF should_disable_marketplace(exc)
    THEN <<Warning("marketplace_disabled", <<>>, marketplace, <<>>)>>
    ELSE <<>>

\* _scan_marketplaces_for_keyword, lines 534-541: the warnings of the
\* except branch.
scan_failed_warnings(keyword, marketplace, exc) ==
    <<Warning("marketplace_scan_failed", keyword, marketplace, exc)>>
    \o (IF should_disable_marketplace(exc)
        THEN <<Warning("marketplace_disabled", <<>>, marketplace, <<>>)>>
        ELSE <<>>)

\* Plausible slip: the dictionary replaced by one that holds the new entry
\* only.
disable_marketplace_resetting(marketplace_unavailable, marketplace, exc) ==
    [m \in {marketplace} |-> exc]

\* marketplace_unavailable[marketplace] = str(exc), line 538
disable_marketplace(marketplace_unavailable, marketplace, exc) ==
    [m \in DOMAIN marketplace_unavailable \cup {marketplace} |->
        IF m = marketplace THEN exc ELSE marketplace_unavailable[m]]

\* _scan_marketplaces_for_keyword, one pass of its loop
ScanMarketplace ==
    /\ d_pc = "scan"
    /\ d_scan_m <= Len(d_config.marketplaces)
    /\ LET keyword == d_candidate_map[d_shortlisted_candidates[d_scan_k]].keyword
           marketplace == d_config.marketplaces[d_scan_m]
       IN  IF marketplace \in DOMAIN d_marketplace_unavailable
           THEN /\ d_snapshots' =
                      Append(d_snapshots,
                             MarketplaceSnapshot(marketplace, keyword, "skipped", None, <<>>,
                                                 Some(d_marketplace_unavailable[marketplace])))
                /\ UNCHANGED <<d_warnings, d_marketplace_unavailable, d_calls>>
           ELSE IF marketplace \notin {"amazon", "walmart", "target"}
           THEN /\ d_warnings' = Append(d_warnings,
                                        Warning("adapter_not_implemented", <<>>, marketplace, <<>>))
                /\ d_snapshots' =
                      Append(d_snapshots,
                             MarketplaceSnapshot(marketplace, keyword, "error", None, <<>>,
                                                 Some("Adapter not implemented.")))
                /\ UNCHANGED <<d_marketplace_unavailable, d_calls>>
           ELSE \/ LET result == ScanResultFor(marketplace, keyword)
                   IN  /\ d_calls' = Append(d_calls, Call("marketplace_scan", keyword,
                                                          marketplace, TRUE, <<>>))
                       /\ d_snapshots' =
                             Append(d_snapshots,
                                    MarketplaceSnapshot(marketplace, keyword, "ok",
                                                        result.total_results_estimate,
                                                        result.sample_products, None))
                       /\ UNCHANGED <<d_warnings, d_marketplace_unavailable>>
                \/ \E exc \in ScanErrors :
                       /\ d_calls' = Append(d_calls, Call("marketplace_scan", keyword,
                                                          marketplace, FALSE, exc))
                       /\ d_warnings' = d_warnings \o scan_failed_warnings(keyword, marketplace, exc)
                       /\ d_marketplace_unavailable' =
                             IF should_disable_marketplace(exc)
                             THEN disable_marketplace(d_marketplace_unavailable, marketplace, exc)
                             ELSE d_marketplace_unavailable
                       /\ d_snapshots' =
                             Append(d_snapshots,
                                    MarketplaceSnapshot(marketplace, keyword, "error", None,
                                                        <<>>, Some(exc)))
    /\ d_scan_m' = d_scan_m + 1
    /\ UNCHANGED <<d_scope, d_config, d_pc, d_fetcher_built, d_seed_keywords,
                   d_excluded_keywords, d_candidate_map, d_search_expansions, d_trend_signals,
                   d_sustained_trend_signals, d_seed_i, d_filtered_candidates, d_selected,
                   d_sust_i, d_failure_count, d_shortlisted_candidates, d_scan_k,
                   d_opportunities, d_report>>
    /\ UNCHANGED <<normVars, recVars, ledVars, expVars, dirVars>>

\* Plausible slip: the search score is left without its cap.
ProductOpportunityUncapped(candidate, scanned, positioning_mode) ==
    LET marketplace_score == score_marketplace_snapshots(scanned)
        search_score == candidate.search_points * SEARCH_RANK_MULTIPLIER
        trend_score == Min(COMPONENT_SCORE_CAP, candidate.trend_points)
        sustained_score == Min(COMPONENT_SCORE_CAP, candidate.sustained_points)
        quality_fit_score == score_quality_fit(candidate.keyword, positioning_mode)
        total_score ==
            (search_score * WEIGHTED_SCORE_WEIGHTS.search
             + trend_score * WEIGHTED_SCORE_WEIGHTS.trend
             + sustained_score * WEIGHTED_SCORE_WEIGHTS.sustained
             + marketplace_score * WEIGHTED_SCORE_WEIGHTS.marketplace) \div 100
    IN  [keyword |-> candidate.keyword,
         score_total |-> Round2(total_score),
         search_score |-> Round2(search_score),
         trend_score |-> Round2(trend_score),
         sustained_trend_score |-> Round2(sustained_score),
         marketplace_score |-> Round2(marketplace_score),
         quality_fit_score |-> Round2(quality_fit_score),
         inventory_recommendation |->
             inventory_recommendation(total_score, sustained_score, marketplace_score,
                                      quality_fit_score, positioning_mode),
         sources |-> candidate.sources,
         marketplace_snapshots |-> scanned]

\* Plausible slip: the opportunity is named by the ledger key instead of the
\* display keyword.
ProductOpportunityKeyed(candidate, scanned, positioning_mode) ==
    LET marketplace_score == score_marketplace_snapshots(scanned)
        search_score == Min(COMPONENT_SCORE_CAP, candidate.search_points * SEARCH_RANK_MULTIPLIER)
        trend_score == Min(COMPONENT_SCORE_CAP, candidate.trend_points)
        sustained_score == Min(COMPONENT_SCORE_CAP, candidate.sustained_points)
        quality_fit_score == score_quality_fit(candidate.keyword, positioning_mode)
        total_score ==
            (search_score * WEIGHTED_SCORE_WEIGHTS.search
             + trend_score * WEIGHTED_SCORE_WEIGHTS.trend
             + sustained_score * WEIGHTED_SCORE_WEIGHTS.sustained
             + marketplace_score * WEIGHTED_SCORE_WEIGHTS.marketplace) \div 100
    IN  [keyword |-> Lower(candidate.keyword),
         score_total |-> Round2(total_score),
         search_score |-> Round2(search_score),
         trend_score |-> Round2(trend_score),
         sustained_trend_score |-> Round2(sustained_score),
         marketplace_score |-> Round2(marketplace_score),
         quality_fit_score |-> Round2(quality_fit_score),
         inventory_recommendation |->
             inventory_recommendation(total_score, sustained_score, marketplace_score,
                                      quality_fit_score, positioning_mode),
         sources |-> candidate.sources,
         marketplace_snapshots |-> scanned]

\* run_product_discovery, lines 166-205: the opportunity of one candidate
ProductOpportunityFor(candidate, scanned, positioning_mode) ==
    LET marketplace_score == score_marketplace_snapshots(scanned)
        search_score == Min(COMPONENT_SCORE_CAP, candidate.search_points * SEARCH_RANK_MULTIPLIER)
        trend_score == Min(COMPONENT_SCORE_CAP, candidate.trend_points)
        sustained_score == Min(COMPONENT_SCORE_CAP, candidate.sustained_points)
        quality_fit_score == score_quality_fit(candidate.keyword, positioning_mode)
        total_score ==
            (search_score * WEIGHTED_SCORE_WEIGHTS.search
             + trend_score * WEIGHTED_SCORE_WEIGHTS.trend
             + sustained_score * WEIGHTED_SCORE_WEIGHTS.sustained
             + marketplace_score * WEIGHTED_SCORE_WEIGHTS.marketplace) \div 100
    IN  [keyword |-> candidate.keyword,
         score_total |-> Round2(total_score),
         search_score |-> Round2(search_score),
         trend_score |-> Round2(trend_score),
         sustained_trend_score |-> Round2(sustained_score),
         marketplace_score |-> Round2(marketplace_score),
         quality_fit_score |-> Round2(quality_fit_score),
         inventory_recommendation |->
             inventory_recommendation(total_score, sustained_score, marketplace_score,
                                      quality_fit_score, positioning_mode),
         sources |-> candidate.sources,
         marketplace_snapshots |-> scanned]

\* run_product_discovery, lines 166-205, after the scan of one candidate
ScoreCandidate ==
    /\ d_pc = "scan"
    /\ d_scan_m > Len(d_config.marketplaces)
    /\ d_opportunities' =
          Append(d_opportunities,
                 ProductOpportunityFor(d_candidate_map[d_shortlisted_candidates[d_scan_k]],
                                       d_snapshots, d_scope.positioning_mode))
    /\ d_pc' = IF d_scan_k >= Len(d_shortlisted_candidates) THEN "assemble" ELSE "scan"
    /\ d_scan_k' = d_scan_k + 1
    /\ d_scan_m' = 1
    /\ d_snapshots' = <<>>
    /\ UNCHANGED <<d_scope, d_config, d_fetcher_built, d_seed_keywords, d_excluded_keywords,
                   d_candidate_map, d_warnings, d_search_expansions, d_trend_signals,
                   d_sustained_trend_signals, d_seed_i, d_filtered_candidates, d_selected,
                   d_sust_i, d_failure_count, d_shortlisted_candidates,
                   d_marketplace_unavailable, d_report, d_calls>>
    /\ UNCHANGED <<normVars, recVars, ledVars, expVars, dirVars>>

\* Plausible slip: the tiebreak compares the keywords as spelled, without
\* lower-casing them.
RECURSIVE SortOpportunitiesCaseSensitive(_, _)
SortOpportunitiesCaseSensitive(items, left) ==
    IF left = {} THEN <<>>
    ELSE LET first == CHOOSE i \in left : \A j \in left \ {i} :
                          \/ items[i].score_total > items[j].score_total
                          \/ /\ items[i].score_total = items[j].score_total
                             /\ \/ StrLess(items[i].keyword, items[j].keyword)
                                \/ /\ items[i].keyword = items[j].keyword
                                   /\ i < j
         IN  <<items[first]>> \o SortOpportunitiesCaseSensitive(items, left \ {first})

\* opportunities.sort(key=lambda item: (-item.score_total, item.keyword.lower()));
\* the sort is stable, so equal keys keep their order.
RECURSIVE SortOpportunities(_, _)
SortOpportunities(items, left) ==
    IF left = {} THEN <<>>
    ELSE LET first == CHOOSE i \in left : \A j \in left \ {i} :
                          \/ items[i].score_total > items[j].score_total
                          \/ /\ items[i].score_total = items[j].score_total
                             /\ \/ StrLess(Lower(items[i].keyword), Lower(items[j].keyword))
                                \/ /\ Lower(items[i].keyword) = Lower(items[j].keyword)
                                   /\ i < j
         IN  <<items[first]>> \o SortOpportunities(items, left \ {first})

\* sorted(excluded_keywords)
RECURSIVE SortedStrings(_)
SortedStrings(strings) ==
    IF strings = {} THEN <<>>
    ELSE LET first == CHOOSE x \in strings : \A y \in strings \ {x} : StrLess(x, y)
         IN  <<first>> \o SortedStrings(strings \ {first})

\* run_product_discovery, lines 207-228
AssembleReport ==
    /\ d_pc = "assemble"
    /\ LET sorted == SortOpportunities(d_opportunities, 1..Len(d_opportunities))
       IN  /\ d_opportunities' = sorted
           /\ d_report' =
                 Some([profile |-> [seed_keywords |-> d_seed_keywords,
                                    positioning_mode |-> d_scope.positioning_mode,
                                    excluded_keywords |-> SortedStrings(d_excluded_keywords)],
                       config |-> d_config,
                       opportunities |-> sorted,
                       search_expansions |-> d_search_expansions,
                       trend_signals |-> d_trend_signals,
                       sustained_trend_signals |-> d_sustained_trend_signals,
                       warnings |-> d_warnings])
    /\ d_pc' = "done"
    /\ UNCHANGED <<d_scope, d_config, d_fetcher_built, d_seed_keywords, d_excluded_keywords,
                   d_candidate_map, d_warnings, d_search_expansions, d_trend_signals,
                   d_sustained_trend_signals, d_seed_i, d_filtered_candidates, d_selected,
                   d_sust_i, d_failure_count, d_shortlisted_candidates, d_scan_k, d_scan_m,
                   d_snapshots, d_marketplace_unavailable, d_calls>>
    /\ UNCHANGED <<normVars, recVars, ledVars, expVars, dirVars>>

Init == RunInit

Next ==
    \/ StartRun
    \/ GoogleSuggest
    \/ AmazonSuggest
    \/ TrendFeed
    \/ FilterCandidates
    \/ TimeseriesFetch
    \/ ShortlistCandidates
    \/ ScanMarketplace
    \/ ScoreCandidate
    \/ AssembleReport

Spec == Init /\ [][Next]_vars

(***************************************************************************)
(* Properties of a run                                                     *)
(***************************************************************************)
FailedCalls == {i \in 1..Len(d_calls) : ~d_calls[i].ok}

IsScan(call) == call.source = "marketplace_scan"

IsTimeseries(call) == call.source = "google_trends_timeseries"

\* An error text that contains a disable marker, whatever its letter case.
HasDisableMarker(text) == \E marker \in DisableMarkers : Contains(Lower(text), marker)

\* The place of a keyword in the order the candidates are scanned in.
ScanPosition(keyword) ==
    CHOOSE k \in 1..Len(d_shortlisted_candidates) :
        d_shortlisted_candidates[k] = Lower(keyword)

ReportedOpportunities == IF d_report = None THEN <<>> ELSE d_report[1].opportunities

\* C2: after a marketplace scan has failed with an error text that contains
\* a disable marker, the adapter of that marketplace is not called again in
\* the run, and every keyword scanned later has, for each entry of that
\* marketplace, a snapshot with status "skipped" whose warning is that text.
MarketplaceBreaker ==
    \A i \in FailedCalls :
        (IsScan(d_calls[i]) /\ HasDisableMarker(d_calls[i].exc)) =>
            /\ \A j \in (i + 1)..Len(d_calls) :
                   ~(IsScan(d_calls[j]) /\ d_calls[j].marketplace = d_calls[i].marketplace)
            /\ \A opps \in {d_opportunities, ReportedOpportunities} :
                 \A o \in 1..Len(opps) :
                   ScanPosition(opps[o].keyword) > ScanPosition(d_calls[i].keyword) =>
                     /\ Len(opps[o].marketplace_snapshots) = Len(d_config.marketplaces)
                     /\ \A n \in 1..Len(d_config.marketplaces) :
                          d_config.marketplaces[n] = d_calls[i].marketplace =>
                            /\ opps[o].marketplace_snapshots[n].marketplace = d_calls[i].marketplace
                            /\ opps[o].marketplace_snapshots[n].status = "skipped"
                            /\ opps[o].marketplace_snapshots[n].warning = Some(d_calls[i].exc)
            /\ d_pc = "done" =>
                 \A k \in 1..Len(d_shortlisted_candidates) :
                     k > ScanPosition(d_calls[i].keyword) =>
                         \E o \in 1..Len(ReportedOpportunities) :
                             Lower(ReportedOpportunities[o].keyword) = d_shortlisted_candidates[k]

\* A finished run in which the first keyword's scan disabled a marketplace
\* and two keywords were scanned after it.
MarketplaceBreakerWitness ==
    /\ d_pc = "done"
    /\ Len(ReportedOpportunities) = 3
    /\ \E i \in FailedCalls :
          /\ IsScan(d_calls[i])
          /\ d_calls[i].exc = ErrHttp429
          /\ ScanPosition(d_calls[i].keyword) = 1
          /\ \E o \in 1..3 :
                \E n \in 1..Len(d_config.marketplaces) :
                    /\ ReportedOpportunities[o].marketplace_snapshots[n].status = "skipped"
                    /\ ReportedOpportunities[o].marketplace_snapshots[n].marketplace
                           = d_calls[i].marketplace

TimeseriesCalls == SelectSeq(d_calls, IsTimeseries)

TimeseriesDisabledWarnings ==
    {i \in 1..Len(d_warnings) : d_warnings[i].kind = "timeseries_disabled"}

\* C3: the sustained breaker has tripped exactly when two timeseries fetches
\* in a row have failed; it is recorded by one warning, no fetch follows it,
\* and failures with a successful fetch between them do not trip it.
SustainedBreakerOnConsecutiveFailures ==
    LET fetches == TimeseriesCalls
        Consecutive == {i \in 1..(Len(fetches) - 1) : ~fetches[i].ok /\ ~fetches[i + 1].ok}
    IN  /\ TimeseriesDisabledWarnings # {} => Consecutive # {}
        /\ \A i \in Consecutive :
              /\ Cardinality(TimeseriesDisabledWarnings) = 1
              /\ Len(fetches) = i + 1
        /\ Cardinality(TimeseriesDisabledWarnings) <= 1

\* C4: no opportunity, scored or reported, has a keyword that the exclusion
\* rule matches against the normalised exclusions of the scope.
ExclusionIsVeto ==
    \A opps \in {d_opportunities, ReportedOpportunities} :
        \A o \in 1..Len(opps) :
            ~is_excluded(opps[o].keyword, normalize_exclusions(d_scope.excluded_keywords))

CandidatePoints(key) ==
    d_candidate_map[key].search_points + d_candidate_map[key].trend_points
    + d_candidate_map[key].sustained_points

\* A report with opportunities, while the ledger holds an excluded keyword
\* with more points than a reported one.
ExclusionIsVetoWitness ==
    /\ d_pc = "done"
    /\ ReportedOpportunities # <<>>
    /\ \E k \in DOMAIN d_candidate_map :
          /\ is_excluded(d_candidate_map[k].keyword,
                         normalize_exclusions(d_scope.excluded_keywords))
          /\ \E o \in 1..Len(ReportedOpportunities) :
                CandidatePoints(k) > CandidatePoints(Lower(ReportedOpportunities[o].keyword))

\* C5: a run whose input passed validation never raises, whichever of its
\* external calls fail: at every position before the end its next step can
\* be taken, it makes no more calls than its loops have passes, and it has
\* returned a report exactly when it is at the end.
ValidatedRunReturns ==
    d_fetcher_built =>
        /\ d_pc \in {"google", "amazon", "trends", "filter", "sustained", "shortlist",
                     "scan", "assemble", "done"}
        /\ d_pc \in {"google", "amazon"} => d_seed_i <= Len(d_seed_keywords)
        /\ d_pc = "sustained" => d_sust_i <= Len(d_selected)
        /\ d_pc = "scan" => d_scan_k <= Len(d_shortlisted_candidates)
        /\ Len(d_calls) <= 2 * Len(d_seed_keywords) + 1 + Len(d_selected)
                             + Len(d_shortlisted_candidates) * Len(d_config.marketplaces)
        /\ (d_pc = "done") = (d_report # None)

\* A run that returned a report although every external call of it failed,
\* calls of all five kinds.
ValidatedRunReturnsWitness ==
    /\ d_pc = "done"
    /\ d_report # None
    /\ FailedCalls = 1..Len(d_calls)
    /\ {d_calls[i].source : i \in 1..Len(d_calls)} =
          {"google_suggest", "amazon_suggest", "google_trends_rss",
           "google_trends_timeseries", "marketplace_scan"}

\* The warning that reports a failed call.
FailureWarning(call) ==
    Warning(CASE call.source = "google_suggest" -> "google_suggest_failed"
              [] call.source = "amazon_suggest" -> "amazon_suggest_failed"
              [] call.source = "google_trends_rss" -> "google_trends_rss_failed"
              [] call.source = "google_trends_timeseries" -> "timeseries_failed"
              [] call.source = "marketplace_scan" -> "marketplace_scan_failed",
            call.keyword, call.marketplace, call.exc)

\* C6: every failed external call has a warning of its own that reports it,
\* so there are at least as many warnings as failed calls, and the report
\* carries the warnings.
WarningTrail ==
    /\ \A i \in FailedCalls :
          Cardinality({w \in 1..Len(d_warnings) : d_warnings[w] = FailureWarning(d_calls[i])})
              >= Cardinality({j \in FailedCalls : d_calls[j] = d_calls[i]})
    /\ Len(d_warnings) >= Cardinality(FailedCalls)
    /\ d_report # None => d_report[1].warnings = d_warnings

\* A report after a failed suggest call, a failed timeseries fetch and a
\* failed marketplace scan that did not disable the marketplace.
WarningTrailWitness ==
    /\ d_pc = "done"
    /\ \E i, j, k \in FailedCalls :
          /\ d_calls[i].source = "google_suggest"
          /\ IsTimeseries(d_calls[j])
          /\ IsScan(d_calls[k]) /\ d_calls[k].exc = ErrTimedOut

\* The inputs that validation is to reject: no seed after normalisation,
\* more than 30 seeds, an unsupported marketplace, an unsupported mode.
InvalidInput ==
    LET seeds == normalize_seed_keywords(d_scope.seed_keywords)
    IN  \/ seeds = <<>>
        \/ Len(seeds) > 30
        \/ \E i \in 1..Len(d_config.marketplaces) :
               d_config.marketplaces[i] \notin {"amazon", "walmart", "target"}
        \/ d_scope.positioning_mode \notin {"balanced", "quality"}

\* C7: a run with invalid input raises, with no fetcher built, no external
\* call made and no report returned.
ValidationBeforeIO ==
    (d_pc # "idle" /\ InvalidInput) =>
        /\ d_pc \in {"start", "raised"}
        /\ ~d_fetcher_built
        /\ d_calls = <<>>
        /\ d_report = None

\* A run that raised for a marketplace that is not supported.
ValidationBeforeIOWitness ==
    /\ d_pc = "raised"
    /\ \E i \in 1..Len(d_config.marketplaces) : d_config.marketplaces[i] = "ebay"
    /\ ~d_fetcher_built

\* C11: the filtered keys, the shortlisted keys and the keywords of the
\* scored opportunities are keys of the ledger at every stage (a key being
\* the lower-cased display keyword of its entry), and every opportunity of
\* the report carries the display keyword of a ledger entry.
LedgerSuperset ==
    /\ \A k \in DOMAIN d_candidate_map : Lower(d_candidate_map[k].keyword) = k
    /\ d_filtered_candidates \subseteq DOMAIN d_candidate_map
    /\ Range(d_selected) \subseteq DOMAIN d_candidate_map
    /\ Range(d_shortlisted_candidates) \subseteq DOMAIN d_candidate_map
    /\ \A opps \in {d_opportunities, ReportedOpportunities} :
          \A o \in 1..Len(opps) :
              /\ Lower(opps[o].keyword) \in DOMAIN d_candidate_map
              /\ d_candidate_map[Lower(opps[o].keyword)].keyword = opps[o].keyword

\* A report with an opportunity whose display keyword is not its ledger key.
LedgerSupersetWitness ==
    /\ d_pc = "done"
    /\ \E o \in 1..Len(ReportedOpportunities) :
          /\ Lower(ReportedOpportunities[o].keyword) # ReportedOpportunities[o].keyword
          /\ Lower(ReportedOpportunities[o].keyword) \in d_filtered_candidates

ScanCalls(keyword, marketplace, ok) ==
    {i \in 1..Len(d_calls) :
        /\ IsScan(d_calls[i])
        /\ d_calls[i].keyword = keyword
        /\ d_calls[i].marketplace = marketplace
        /\ d_calls[i].ok = ok}

\* The place of a display keyword in the order the candidates are scanned in.
ShortlistIndex(keyword) ==
    CHOOSE k \in 1..Len(d_shortlisted_candidates) :
        d_candidate_map[d_shortlisted_candidates[k]].keyword = keyword

\* The marketplace of entry n was disabled before the scan of the keyword
\* reached that entry: by the scan of an earlier keyword, or by an earlier
\* entry of the same keyword.
DisabledBefore(keyword, scanned, n) ==
    \E i \in 1..Len(d_calls) :
        /\ ~d_calls[i].ok
        /\ IsScan(d_calls[i])
        /\ d_calls[i].marketplace = d_config.marketplaces[n]
        /\ IF d_calls[i].keyword = keyword
           THEN \E earlier \in 1..(n - 1) :
                    /\ scanned[earlier].marketplace = d_config.marketplaces[n]
                    /\ scanned[earlier].status = "error"
                    /\ scanned[earlier].warning = Some(d_calls[i].exc)
           ELSE ShortlistIndex(d_calls[i].keyword) < ShortlistIndex(keyword)
        /\ HasDisableMarker(d_calls[i].exc)

\* The snapshots of one keyword, complete or still being collected: one per
\* configured marketplace in order, tagged by what happened to the call.
SnapshotsMatchCalls(keyword, scanned) ==
    /\ Len(scanned) <= Len(d_config.marketplaces)
    /\ \A n \in 1..Len(scanned) :
          /\ scanned[n].marketplace = d_config.marketplaces[n]
          /\ scanned[n].query = keyword
          /\ scanned[n].status \in {"ok", "error", "skipped"}
          /\ (scanned[n].status = "skipped") = DisabledBefore(keyword, scanned, n)
    /\ \A m \in Range(d_config.marketplaces) :
          /\ Cardinality({n \in 1..Len(scanned) :
                            scanned[n].marketplace = m /\ scanned[n].status = "ok"})
                = Cardinality(ScanCalls(keyword, m, TRUE))
          /\ Cardinality({n \in 1..Len(scanned) :
                            scanned[n].marketplace = m /\ scanned[n].status = "error"})
                = Cardinality(ScanCalls(keyword, m, FALSE))

\* C12: the scan of a shortlisted keyword yields one snapshot per configured
\* marketplace, in configuration order: "ok" for a call that returned,
\* "error" for a call that raised, "skipped" (and no call) exactly when the
\* marketplace had been disabled before.
SnapshotPerMarketplace ==
    /\ \A o \in 1..Len(d_opportunities) :
          /\ Len(d_opportunities[o].marketplace_snapshots) = Len(d_config.marketplaces)
          /\ SnapshotsMatchCalls(d_opportunities[o].keyword,
                                 d_opportunities[o].marketplace_snapshots)
    /\ d_report # None => ReportedOpportunities = d_opportunities
    /\ d_pc = "scan" =>
          /\ Len(d_snapshots) = d_scan_m - 1
          /\ SnapshotsMatchCalls(d_candidate_map[d_shortlisted_candidates[d_scan_k]].keyword,
                                 d_snapshots)
    /\ d_pc = "done" => Len(ReportedOpportunities) = Len(d_shortlisted_candidates)

\* A report in which one keyword has an "error" and a "skipped" snapshot for
\* the marketplace configured twice, and another keyword has an "ok" one.
SnapshotPerMarketplaceWitness ==
    /\ d_pc = "done"
    /\ Len(d_config.marketplaces) = 2
    /\ \E o \in 1..Len(ReportedOpportunities) :
          /\ ReportedOpportunities[o].marketplace_snapshots[1].status = "error"
          /\ ReportedOpportunities[o].marketplace_snapshots[2].status = "skipped"
          /\ ReportedOpportunities[o].marketplace_snapshots[2].marketplace
                = ReportedOpportunities[o].marketplace_snapshots[1].marketplace
    /\ \E o \in 1..Len(ReportedOpportunities) :
          ReportedOpportunities[o].marketplace_snapshots[1].status = "ok"

SeedKeys == {Lower(d_seed_keywords[i]) : i \in 1..Len(d_seed_keywords)}

\* C13: before the first suggest call every seed is in the ledger with the
\* seed weight, and whenever the shortlist holds a candidate that is not a
\* seed it holds every seed that is not excluded.
SeedsNeverCrowdedOut ==
    /\ (d_pc = "google" /\ d_calls = <<>>) =>
          \A k \in SeedKeys :
              /\ k \in DOMAIN d_candidate_map
              /\ d_candidate_map[k].search_points = SEARCH_SOURCE_WEIGHTS["seed_keyword"]
              /\ d_candidate_map[k].sources = {"seed_keyword"}
    /\ (d_pc \in {"scan", "assemble", "done"}
        /\ Range(d_shortlisted_candidates) \ SeedKeys # {}) =>
          \A k \in SeedKeys :
              is_excluded(k, d_excluded_keywords) \/ k \in Range(d_shortlisted_candidates)

SamePair(a, b) ==
    /\ a.source = b.source
    /\ a.keyword = b.keyword
    /\ a.marketplace = b.marketplace

\* C14: no (keyword, source) pair is attempted twice in a run, and in
\* particular none is attempted again after it has failed.
NoRetries ==
    \A i \in 1..Len(d_calls) :
        \A j \in (i + 1)..Len(d_calls) : ~SamePair(d_calls[i], d_calls[j])

\* C15: the opportunities of the report are in descending order of total
\* score, and in ascending order of lower-cased keyword where totals are
\* equal; they are the scored opportunities, none lost or added.
ReportSorted ==
    d_report # None =>
        /\ \A o \in 1..(Len(ReportedOpportunities) - 1) :
              LET a == ReportedOpportunities[o]
                  b == ReportedOpportunities[o + 1]
              IN  \/ a.score_total > b.score_total
                  \/ /\ a.score_total = b.score_total
                     /\ \/ Lower(a.keyword) = Lower(b.keyword)
                        \/ StrLess(Lower(a.keyword), Lower(b.keyword))
        /\ Len(ReportedOpportunities) = Len(d_shortlisted_candidates)
        /\ {Lower(ReportedOpportunities[o].keyword) : o \in 1..Len(ReportedOpportunities)}
              = Range(d_shortlisted_candidates)

\* A report of two opportunities with equal totals whose keywords, compared
\* as spelled, are in the other order.
ReportSortedWitness ==
    /\ d_pc = "done"
    /\ Len(ReportedOpportunities) = 2
    /\ ReportedOpportunities[1].score_total = ReportedOpportunities[2].score_total
    /\ StrLess(ReportedOpportunities[2].keyword, ReportedOpportunities[1].keyword)

\* C16: in every report each of the five component scores of every
\* opportunity lies between 0 and 100, and so does score_total, which is the
\* 0.22/0.14/0.34/0.30 weighted sum of the search, trend, sustained and
\* marketplace scores (to within the hundredth the report rounds to).
ScoreBounds ==
    \A opps \in {d_opportunities, ReportedOpportunities} :
        \A o \in 1..Len(opps) :
            \A field \in {"search_score", "trend_score", "sustained_trend_score",
                          "marketplace_score", "quality_fit_score", "score_total"} :
                /\ opps[o][field] >= 0
                /\ opps[o][field] <= 100 * PU
                /\ LET weighted == 22 * opps[o].search_score + 14 * opps[o].trend_score
                                    + 34 * opps[o].sustained_trend_score
                                    + 30 * opps[o].marketplace_score
                       off == 100 * opps[o].score_total - weighted
                   IN  off <= PU /\ -off <= PU

\* A reported opportunity whose ledger entry carries more search points than
\* the cap lets through, so that the bound holds by the cap alone.
ScoreBoundsWitness ==
    /\ d_pc = "done"
    /\ \E o \in 1..Len(ReportedOpportunities) :
          LET candidate == d_candidate_map[Lower(ReportedOpportunities[o].keyword)]
          IN  /\ candidate.search_points * SEARCH_RANK_MULTIPLIER > 100 * PU
              /\ ReportedOpportunities[o].search_score = 100 * PU
              /\ ReportedOpportunities[o].score_total > 0

(***************************************************************************)
(* Ranked suggestions: _apply_ranked_suggestions on the ledger of one seed *)
(***************************************************************************)
MaxSuggestions == 3

MaxRounds == 2

KwCdGhSpelled == <<"C", "d", " ", "g", "h">>

\* What a suggest adapter can hand over: phrases with their whitespace
\* collapsed, no phrase twice in one list (sources.py _dedupe_phrases), among
\* them the seed itself, two spellings of one keyword and a phrase too short
\* to be a keyword.
SuggestionPool == {KwSeedEf, KwCdGh, KwCdGhSpelled, KwXy, KwTooShort, KwSeed}

SuggestionLists ==
    {list \in StrsUpTo(SuggestionPool, MaxSuggestions) :
        /\ list # <<>>
        /\ \A i, j \in 1..Len(list) : i # j => list[i] # list[j]}

SuggestSources == {"google_suggest", "amazon_suggest"}

ExpInit ==
    /\ e_before = EmptyLedger
    /\ e_candidate_map = SeedLedgerFrom(EmptyLedger, <<KwSeed>>, 1)
    /\ e_suggestions = <<>>
    /\ e_source = "none"
    /\ e_round = 0
    /\ NormIdle
    /\ RecIdle
    /\ LedIdle
    /\ RunIdle
    /\ DirIdle

\* _collect_search_expansions, lines 254-258 and 274-278: a non-empty list of
\* one source is applied to the ledger.
ApplyRankedSuggestions ==
    /\ e_round < MaxRounds
    /\ \E source \in SuggestSources, suggestions \in SuggestionLists :
          /\ e_before' = e_candidate_map
          /\ e_candidate_map' = apply_ranked_suggestions(e_candidate_map, suggestions, source)
          /\ e_suggestions' = suggestions
          /\ e_source' = source
    /\ e_round' = e_round + 1
    /\ UNCHANGED <<normVars, recVars, ledVars, runVars, dirVars>>

ExpNext == ApplyRankedSuggestions

SpecExp == ExpInit /\ [][ExpNext]_vars

SuggestionKey(i) == Lower(normalize_keyword(e_suggestions[i]))

\* The conclusion of C17 for the list applied last.
RankDecayed ==
    LET N == Len(e_suggestions)
    IN  \A i \in 1..N :
            /\ SuggestionKey(i) \in DOMAIN e_candidate_map
            /\ e_candidate_map[SuggestionKey(i)].search_points * N
                  = SEARCH_SOURCE_WEIGHTS[e_source] * (N - i + 1)
            /\ e_candidate_map[SuggestionKey(i)].search_points
                  < e_candidate_map[Lower(KwSeed)].search_points
            /\ \A j \in 1..(i - 1) :
                  e_candidate_map[SuggestionKey(j)].search_points
                      > e_candidate_map[SuggestionKey(i)].search_points

\* C17 as stated: a list of N distinct suggestions none of which equals a
\* seed or an earlier observation puts every suggestion in the ledger with
\* search_points = source_weight * (N - i + 1) / N, less than the seed's and
\* strictly decreasing in rank.
RankDecayForDistinctSuggestions ==
    (/\ e_round > 0
     /\ \A i, j \in 1..Len(e_suggestions) : i # j => e_suggestions[i] # e_suggestions[j]
     /\ \A i \in 1..Len(e_suggestions) :
           e_suggestions[i] \notin {e_before[k].keyword : k \in DOMAIN e_before})
    => RankDecayed

\* The suggestions are keywords (none normalises to the empty string), are
\* distinct as ledger keys, and none is a key of the ledger already.
FreshKeywords ==
    /\ e_round > 0
    /\ \A i \in 1..Len(e_suggestions) :
          /\ normalize_keyword(e_suggestions[i]) # <<>>
          /\ SuggestionKey(i) \notin DOMAIN e_before
          /\ \A j \in 1..(i - 1) : SuggestionKey(j) # SuggestionKey(i)

\* C17, amended: a list of N suggestions that are keywords, distinct without
\* regard to case, none of them the key of a seed or of an earlier
\* observation, puts every suggestion in the ledger with search_points =
\* source_weight * (N - i + 1) / N, less than the seed's and strictly
\* decreasing in rank.
RankDecayForFreshKeywords == FreshKeywords => RankDecayed

\* A second list, of two fresh keywords, applied to a ledger that holds an
\* earlier observation.
RankDecayForFreshKeywordsWitness ==
    /\ e_round = 2
    /\ Len(e_suggestions) = 2
    /\ FreshKeywords
    /\ Cardinality(DOMAIN e_before) > 1
    /\ e_candidate_map[SuggestionKey(2)].search_points * 2 = SEARCH_SOURCE_WEIGHTS[e_source]

(***************************************************************************)
(* Direction: _classify_direction on metric triples around its thresholds  *)
(***************************************************************************)
\* How far around each threshold the triples reach, in thousandths.
DirSpread == 1

Around(centres) == UNION {(c - DirSpread)..(c + DirSpread) : c \in centres}

GrowthRates ==
    LET T == SUSTAINED_DIRECTION_THRESHOLDS
    IN  Around({T.accelerating_growth_min, T.steady_growth_min, 0, T.declining_growth_max})

SlopesPerPoint ==
    LET T == SUSTAINED_DIRECTION_THRESHOLDS
    IN  Around({T.accelerating_slope_min, T.steady_slope_min, 0, T.declining_slope_max})

\* consistency_ratio is a share of steps, between 0 and 1.
ConsistencyRatios ==
    {c \in Around({0, SUSTAINED_DIRECTION_THRESHOLDS.accelerating_consistency_min, MS}) :
        c >= 0 /\ c <= MS}

DirInit ==
    /\ c_growth_rate \in GrowthRates
    /\ c_slope_per_point \in SlopesPerPoint
    /\ c_consistency \in ConsistencyRatios
    /\ c_direction = "none"
    /\ c_pc = "input"
    /\ NormIdle
    /\ RecIdle
    /\ LedIdle
    /\ RunIdle
    /\ ExpIdle

\* direction=_classify_direction(...) in compute_sustained_trend_metrics
ClassifyDirection ==
    /\ c_pc = "input"
    /\ c_direction' = classify_direction(c_growth_rate, c_slope_per_point, c_consistency)
    /\ c_pc' = "done"
    /\ UNCHANGED <<c_growth_rate, c_slope_per_point, c_consistency>>
    /\ UNCHANGED <<normVars, recVars, ledVars, runVars, expVars>>

DirNext == ClassifyDirection

SpecDir == DirInit /\ [][DirNext]_vars

\* The three tests of C18, with its numbers: x >= 0.20 as 100 x >= 20.
MeetsAccelerating ==
    /\ 100 * c_growth_rate >= 20 * MS
    /\ 100 * c_slope_per_point >= 10 * MS
    /\ 100 * c_consistency >= 60 * MS

MeetsSteadyUp ==
    /\ 100 * c_growth_rate >= 5 * MS
    /\ 100 * c_slope_per_point >= 3 * MS

MeetsDeclining ==
    \/ 100 * c_growth_rate <= -10 * MS
    \/ 100 * c_slope_per_point <= -5 * MS

\* C18: every metric triple gets exactly one of the four directions, the
\* first in the order accelerating, steady_up, declining whose test it
\* meets, and flat when it meets none.
DirectionByPriority ==
    c_pc = "done" =>
        /\ c_direction \in {"accelerating", "steady_up", "declining", "flat"}
        /\ (c_direction = "accelerating") = MeetsAccelerating
        /\ (c_direction = "steady_up") = (~MeetsAccelerating /\ MeetsSteadyUp)
        /\ (c_direction = "declining")
              = (~MeetsAccelerating /\ ~MeetsSteadyUp /\ MeetsDeclining)
        /\ (c_direction = "flat")
              = (~MeetsAccelerating /\ ~MeetsSteadyUp /\ ~MeetsDeclining)

\* A triple at the accelerating growth and slope thresholds whose
\* consistency is just short of 0.60: it falls through to steady_up.
DirectionByPriorityWitness ==
    /\ c_pc = "done"
    /\ 100 * c_growth_rate = 20 * MS
    /\ 100 * c_slope_per_point = 10 * MS
    /\ 100 * c_consistency < 60 * MS
    /\ c_consistency > 0
    /\ c_direction = "steady_up"

(***************************************************************************)
(* Properties of run_product_discovery, continued                          *)
(***************************************************************************)
\* The run is past line 137: _filter_candidates has returned.
FilterApplied == d_pc \in {"sustained", "shortlist", "scan", "assemble", "done"}

\* C19: once the exclusion filter has been applied, no step of the run adds
\* points or a source tag to any ledger entry.
NoAccumulationAfterFilter ==
    [][FilterApplied =>
          /\ DOMAIN d_candidate_map' = DOMAIN d_candidate_map
          /\ \A k \in DOMAIN d_candidate_map :
                /\ d_candidate_map'[k].search_points = d_candidate_map[k].search_points
                /\ d_candidate_map'[k].trend_points = d_candidate_map[k].trend_points
                /\ d_candidate_map'[k].sustained_points = d_candidate_map[k].sustained_points
                /\ d_candidate_map'[k].sources = d_candidate_map[k].sources]_vars

\* The exclusion rule as C20 words it, for a ledger keyword and one entry
\* of the normalised exclusion set.
VetoedEitherDirection(keyword, excluded) ==
    LET lower_keyword == Lower(keyword)
    IN  \/ lower_keyword = excluded
        \/ Contains(lower_keyword, excluded)
        \/ Contains(excluded, lower_keyword)
        \/ Tokens(excluded) # {} /\ Tokens(excluded) \subseteq Tokens(lower_keyword)

\* C20: a candidate is vetoed when it equals an exclusion entry, contains
\* one, is contained in one, or has all the tokens of one; so no such
\* candidate is among the filtered candidates.
ExclusionEitherDirection ==
    (FilterApplied /\ d_excluded_keywords # {}) =>
        \A k \in d_filtered_candidates :
            \A excluded \in d_excluded_keywords :
                ~VetoedEitherDirection(d_candidate_map[k].keyword, excluded)

\* C21: the sustained-trend pass fetches a time series for at most
\* max_sustained_trend_terms candidates (for every value >= 0), every
\* selected candidate has relevance >= 0.2 to the seeds, and the selection
\* follows search_points + trend_points descending, then keyword ascending.
SustainedSelectionBounded ==
    FilterApplied =>
        /\ Len(TimeseriesCalls) <= d_config.max_sustained_trend_terms
        /\ Len(d_selected) <= d_config.max_sustained_trend_terms
        /\ \A i \in 1..Len(d_selected) :
              /\ d_selected[i] \in d_filtered_candidates
              /\ 10 * keyword_relevance(d_candidate_map[d_selected[i]].keyword, d_seed_keywords)
                    >= 2 * PU
              /\ \A j \in (i + 1)..Len(d_selected) :
                    LET a == d_candidate_map[d_selected[i]]
                        b == d_candidate_map[d_selected[j]]
                    IN  \/ a.search_points + a.trend_points > b.search_points + b.trend_points
                        \/ /\ a.search_points + a.trend_points
                                 = b.search_points + b.trend_points
                           /\ StrLess(d_selected[i], d_selected[j])

\* C22: a trend record whose relevance to the seeds is below 0.25 is
\* discarded: the trend pass adds no TrendSignal for it, creates no ledger
\* entry for it and leaves an existing entry of its key as it was; no signal
\* of the report has a relevance below 0.25.
TrendBelowThresholdDiscarded ==
    [][/\ d_pc = "trends" =>
             \A r \in 1..Len(TrendRecords) :
                 LET query == TrendRecords[r].query
                     key == Lower(normalize_keyword(query))
                 IN  100 * keyword_relevance(query, d_seed_keywords) < 25 * PU =>
                         /\ \A t \in 1..Len(d_trend_signals') :
                               d_trend_signals'[t].query # query
                         /\ (key \in DOMAIN d_candidate_map')
                               = (key \in DOMAIN d_candidate_map)
                         /\ key \in DOMAIN d_candidate_map =>
                               d_candidate_map'[key] = d_candidate_map[key]
       /\ d_report' # None =>
             \A t \in 1..Len(d_report'[1].trend_signals) :
                 /\ 100 * d_report'[1].trend_signals[t].relevance_score >= 25 * PU
                 /\ 100 * keyword_relevance(d_report'[1].trend_signals[t].query, d_seed_keywords)
                       >= 25 * PU]_vars

\* The feed has just been applied: it has left a signal, and the entry of
\* "xy", which a suggestion had created and which has no relevance to the
\* seeds, carries nothing of the feed.
TrendBelowThresholdDiscardedWitness ==
    /\ d_pc = "filter"
    /\ d_trend_signals # <<>>
    /\ KwXy \in DOMAIN d_candidate_map
    /\ d_candidate_map[KwXy].sources = {"amazon_suggest"}
    /\ d_candidate_map[KwXy].trend_hits = 0
    /\ d_candidate_map[KwXy].trend_points = 0
    /\ keyword_relevance(KwXy, d_seed_keywords) = 0
    /\ \E r \in 1..Len(TrendRecords) : TrendRecords[r].query = KwXy

\* The fetch loop is at a candidate whose time series, if the fetch
\* returns, has fewer than 16 samples, and this step is a fetch that returns.
ShortSeriesReturned ==
    /\ d_pc = "sustained"
    /\ d_sust_i <= Len(d_selected)
    /\ Len(TimeseriesFor(d_candidate_map[d_selected[d_sust_i]].keyword)) < 16
    /\ Len(d_calls') = Len(d_calls) + 1
    /\ d_calls'[Len(d_calls')].ok

\* C23: a time series of fewer than 16 samples is skipped without penalty:
\* the ledger, the sustained signals, the warnings and the failure count of
\* the breaker stay as they were, and the loop goes on to the next candidate.
ShortSeriesSkipped ==
    [][ShortSeriesReturned =>
          /\ d_candidate_map' = d_candidate_map
          /\ d_sustained_trend_signals' = d_sustained_trend_signals
          /\ d_warnings' = d_warnings
          /\ d_failure_count' = d_failure_count
          /\ d_sust_i' = d_sust_i + 1
          /\ d_pc' = IF d_sust_i < Len(d_selected) THEN "sustained" ELSE "shortlist"]_vars

\* The series of "ab cd ef" has been fetched and was too short, after an
\* earlier fetch had failed; the entry has no sustained points and no
\* time-series tag, and a candidate is still to come.
ShortSeriesSkippedWitness ==
    /\ d_pc = "sustained"
    /\ d_sust_i <= Len(d_selected)
    /\ d_calls # <<>>
    /\ d_calls[Len(d_calls)] = Call("google_trends_timeseries", KwSeedEf, "", TRUE, <<>>)
    /\ Len(TimeseriesFor(KwSeedEf)) < 16
    /\ d_failure_count = 1
    /\ d_candidate_map[KwSeedEf].sustained_points = 0
    /\ "google_trends_timeseries" \notin d_candidate_map[KwSeedEf].sources

\* C24: the ledger only grows: no step of a run removes a key, and for every
\* entry search_points, trend_points, sustained_points and trend_hits never
\* decrease and sources never loses a tag.
LedgerOnlyGrows ==
    [][/\ DOMAIN d_candidate_map \subseteq DOMAIN d_candidate_map'
       /\ \A k \in DOMAIN d_candidate_map :
             /\ d_candidate_map'[k].search_points >= d_candidate_map[k].search_points
             /\ d_candidate_map'[k].trend_points >= d_candidate_map[k].trend_points
             /\ d_candidate_map'[k].sustained_points >= d_candidate_map[k].sustained_points
             /\ d_candidate_map'[k].trend_hits >= d_candidate_map[k].trend_hits
             /\ d_candidate_map[k].sources \subseteq d_candidate_map'[k].sources]_vars

\* A finished run whose ledger holds an entry fed by three collectors, an
\* entry the filter has dropped and an entry the shortlist has left out.
LedgerOnlyGrowsWitness ==
    /\ d_pc = "done"
    /\ \E k \in DOMAIN d_candidate_map : Cardinality(d_candidate_map[k].sources) >= 3
    /\ \E k \in DOMAIN d_candidate_map : k \notin d_filtered_candidates
    /\ \E k \in d_filtered_candidates : k \notin Range(d_shortlisted_candidates)

\* The scan loop is at an entry of its marketplaces, for a shortlisted keyword.
AtScanEntry == d_pc = "scan" /\ d_scan_m <= Len(d_config.marketplaces)

ScanKeyword(k) == d_candidate_map[d_shortlisted_candidates[k]].keyword

\* This step is a call of a marketplace adapter that raises a text without
\* a disable marker.
ScanFailsWithoutMarker ==
    /\ AtScanEntry
    /\ Len(d_calls') = Len(d_calls) + 1
    /\ ~d_calls'[Len(d_calls')].ok
    /\ ~HasDisableMarker(d_calls'[Len(d_calls')].exc)

\* The scan of the keyword before this one failed on the marketplace of this
\* entry with a text without a disable marker, and no scan of this
\* marketplace has failed with a disable marker.
FailedWithoutMarkerForPreviousKeyword ==
    /\ AtScanEntry
    /\ d_scan_k >= 2
    /\ \E i \in FailedCalls :
          /\ IsScan(d_calls[i])
          /\ d_calls[i].marketplace = d_config.marketplaces[d_scan_m]
          /\ d_calls[i].keyword = ScanKeyword(d_scan_k - 1)
          /\ ~HasDisableMarker(d_calls[i].exc)
    /\ \A j \in FailedCalls :
          (IsScan(d_calls[j]) /\ d_calls[j].marketplace = d_config.marketplaces[d_scan_m])
              => ~HasDisableMarker(d_calls[j].exc)

DisabledByCalls ==
    {d_calls[i].marketplace : i \in {j \in FailedCalls : /\ IsScan(d_calls[j])
                                                         /\ HasDisableMarker(d_calls[j].exc)}}

\* C26: the breaker is per marketplace and permanent: a disabling failure on
\* a marketplace adds that marketplace alone to the disabled set, nothing
\* else changes the set, no entry ever leaves it or changes, and at every
\* entry of a marketplace that has not itself failed that way the adapter is
\* called, whatever other marketplaces are disabled.
BreakerPerMarketplace ==
    [][/\ \A m \in DOMAIN d_marketplace_unavailable :
             /\ m \in DOMAIN d_marketplace_unavailable'
             /\ d_marketplace_unavailable'[m] = d_marketplace_unavailable[m]
       /\ DOMAIN d_marketplace_unavailable' # DOMAIN d_marketplace_unavailable =>
             /\ AtScanEntry
             /\ Len(d_calls') = Len(d_calls) + 1
             /\ ~d_calls'[Len(d_calls')].ok
             /\ HasDisableMarker(d_calls'[Len(d_calls')].exc)
             /\ DOMAIN d_marketplace_unavailable'
                   = DOMAIN d_marketplace_unavailable \cup {d_calls'[Len(d_calls')].marketplace}
       /\ (AtScanEntry /\ DisabledByCalls # {}
           /\ d_config.marketplaces[d_scan_m] \notin DisabledByCalls) =>
             /\ Len(d_calls') = Len(d_calls) + 1
             /\ IsScan(d_calls'[Len(d_calls')])
             /\ d_calls'[Len(d_calls')].marketplace = d_config.marketplaces[d_scan_m]
             /\ d_calls'[Len(d_calls')].keyword = ScanKeyword(d_scan_k)]_vars

\* amazon was disabled by the scan of the first keyword; walmart has been
\* scanned for the first keyword and, just now, for the second.
BreakerPerMarketplaceWitness ==
    /\ d_pc = "scan"
    /\ d_scan_k = 2
    /\ DOMAIN d_marketplace_unavailable = {"amazon"}
    /\ d_calls # <<>>
    /\ d_calls[Len(d_calls)].marketplace = "walmart"
    /\ d_calls[Len(d_calls)].keyword = ScanKeyword(2)
    /\ \E i \in 1..Len(d_calls) :
          /\ d_calls[i].marketplace = "walmart"
          /\ d_calls[i].keyword = ScanKeyword(1)
    /\ \E i \in FailedCalls :
          /\ d_calls[i].marketplace = "amazon"
          /\ d_calls[i].keyword = ScanKeyword(1)
          /\ d_calls[i].exc = ErrHttp429

\* The sustained signals emitted for the entry of key k.
SustainedSignalsOf(k) ==
    {t \in 1..Len(d_sustained_trend_signals) :
        d_sustained_trend_signals[t].query = d_candidate_map[k].keyword}

\* C27: every ledger entry gets at most one sustained-trend increment in a
\* run: at most one SustainedTrendSignal per keyword, sustained_points at
\* most 100, and 0 for an entry without the google_trends_timeseries tag.
OneSustainedIncrement ==
    /\ \A t \in 1..Len(d_sustained_trend_signals) :
          \E k \in DOMAIN d_candidate_map : t \in SustainedSignalsOf(k)
    /\ \A k \in DOMAIN d_candidate_map :
          /\ Cardinality(SustainedSignalsOf(k)) <= 1
          /\ d_candidate_map[k].sustained_points >= 0
          /\ d_candidate_map[k].sustained_points <= 100 * PU
          /\ ("google_trends_timeseries" \in d_candidate_map[k].sources)
                = (SustainedSignalsOf(k) # {})
          /\ "google_trends_timeseries" \notin d_candidate_map[k].sources =>
                d_candidate_map[k].sustained_points = 0
          /\ \A t \in SustainedSignalsOf(k) :
                Round2(d_candidate_map[k].sustained_points)
                    = d_sustained_trend_signals[t].sustained_score

\* A finished run with two signals or more, in which one entry has reached 100
\* sustained points and another, whose series was too short, has none.
OneSustainedIncrementWitness ==
    /\ d_pc = "done"
    /\ Len(d_sustained_trend_signals) >= 2
    /\ \E k \in DOMAIN d_candidate_map :
          /\ d_candidate_map[k].sustained_points = 100 * PU
          /\ Cardinality(SustainedSignalsOf(k)) = 1
    /\ \E k \in Range(d_selected) :
          /\ "google_trends_timeseries" \notin d_candidate_map[k].sources
          /\ d_candidate_map[k].sustained_points = 0

\* C28: quality positioning is never more lenient than balanced: for the
\* same four scores the tier in quality mode is not higher than the tier in
\* balanced mode (reject < watchlist < test_small_batch < add_now).
QualityNeverMoreLenient ==
    r_pc = "rated" =>
        /\ r_mode = "quality" =>
              TierRank(r_tier)
                  <= TierRank(inventory_recommendation(r_total, r_sust, r_mkt, r_qual, "balanced"))
        /\ r_mode = "balanced" =>
              TierRank(r_tier)
                  >= TierRank(inventory_recommendation(r_total, r_sust, r_mkt, r_qual, "quality"))

\* Scores that meet every add_now gate but a quality fit below 45: rated
\* watchlist in quality mode, add_now in balanced mode.
QualityNeverMoreLenientWitness ==
    /\ r_pc = "rated"
    /\ r_mode = "quality"
    /\ r_total >= 70 * PU
    /\ r_sust >= 60 * PU
    /\ r_mkt >= 45 * PU
    /\ r_qual < 45 * PU
    /\ r_tier = "watchlist"
    /\ inventory_recommendation(r_total, r_sust, r_mkt, r_qual, "balanced") = "add_now"

\* search_points + trend_points + sustained_points of the entry of key k.
TotalPoints(k) ==
    d_candidate_map[k].search_points + d_candidate_map[k].trend_points
    + d_candidate_map[k].sustained_points

ReportedKeys == {Lower(ReportedOpportunities[o].keyword) : o \in 1..Len(ReportedOpportunities)}

\* C29: the report has min(max_marketplace_terms, number of non-excluded
\* ledger entries) opportunities, their keywords are distinct without regard
\* to case, and they are the first of the non-excluded entries in the order
\* of search + trend + sustained points descending, then keyword ascending.
ReportIsTopOfLedger ==
    d_report # None =>
        /\ Len(ReportedOpportunities)
              = Min(d_config.max_marketplace_terms, Cardinality(d_filtered_candidates))
        /\ Cardinality(ReportedKeys) = Len(ReportedOpportunities)
        /\ ReportedKeys \subseteq d_filtered_candidates
        /\ \A k \in ReportedKeys :
              \A j \in d_filtered_candidates \ ReportedKeys :
                  \/ TotalPoints(k) > TotalPoints(j)
                  \/ TotalPoints(k) = TotalPoints(j) /\ StrLess(k, j)

\* A report of fewer opportunities than there are non-excluded entries, in
\* which sustained points decide: a reported entry has fewer search and
\* trend points than an entry that was left out.
ReportIsTopOfLedgerWitness ==
    /\ d_pc = "done"
    /\ Len(ReportedOpportunities) >= 1
    /\ Len(ReportedOpportunities) < Cardinality(d_filtered_candidates)
    /\ \E k \in ReportedKeys :
          \E j \in d_filtered_candidates \ ReportedKeys :
              d_candidate_map[k].search_points + d_candidate_map[k].trend_points
                  < d_candidate_map[j].search_points + d_candidate_map[j].trend_points

\* Every external call of the run has failed (and there was one).
AllCallsFailed == d_calls # <<>> /\ \A i \in 1..Len(d_calls) : ~d_calls[i].ok

\* C30: when every external call of a run fails, the report has one
\* opportunity per non-excluded seed, up to max_marketplace_terms, each with
\* trend, sustained and marketplace score 0 and all its snapshots in status
\* error or skipped, and the warnings are not empty.
SeedsSurviveTotalFailure ==
    (d_report # None /\ AllCallsFailed) =>
        /\ ReportedKeys \subseteq SeedKeys \cap d_filtered_candidates
        /\ Len(ReportedOpportunities)
              = Min(d_config.max_marketplace_terms,
                    Cardinality(SeedKeys \cap d_filtered_candidates))
        /\ Cardinality(ReportedKeys) = Len(ReportedOpportunities)
        /\ \A o \in 1..Len(ReportedOpportunities) :
              LET opp == ReportedOpportunities[o]
              IN  /\ opp.trend_score = 0
                  /\ opp.sustained_trend_score = 0
                  /\ opp.marketplace_score = 0
                  /\ opp.search_score > 0
                  /\ Len(opp.marketplace_snapshots) = Len(d_config.marketplaces)
                  /\ \A n \in 1..Len(opp.marketplace_snapshots) :
                        opp.marketplace_snapshots[n].status \in {"error", "skipped"}
        /\ d_report[1].warnings # <<>>
        /\ Len(d_report[1].warnings) >= Len(d_calls)

\* A finished run of two seeds in which every call failed: the scan of the
\* first seed disabled the marketplace, the second seed has a skipped
\* snapshot.
SeedsSurviveTotalFailureWitness ==
    /\ d_pc = "done"
    /\ AllCallsFailed
    /\ Len(ReportedOpportunities) = 2
    /\ \E o, q \in 1..2 :
          /\ ReportedOpportunities[o].marketplace_snapshots[1].status = "error"
          /\ ReportedOpportunities[q].marketplace_snapshots[1].status = "skipped"
    /\ \E i \in 1..Len(d_calls) : IsScan(d_calls[i])
    /\ \E i \in 1..Len(d_calls) : IsTimeseries(d_calls[i])

====
